---- MODULE Spec2Model ----
(***************************************************************************)
(* The resilient request pipeline of the Salesforce Go SDK.                *)
(*                                                                         *)
(* Two request executors live in the repository:                           *)
(*   - the TokenProvider-based one (Client.Request / Client.doRequest,     *)
(*     src/http/client.go) driven by SalesforceClient (src/client.go);     *)
(*   - the Config-based one (Client.doRequest / Client.executeRequest,     *)
(*     src/apex/service.go, second package of the file).                   *)
(* Spec        one logical call through either executor, against a server  *)
(*             and a token endpoint that answer nondeterministically and a *)
(*             context that may be cancelled at any moment.                *)
(* SpecBackoff the delay computations as pure functions of their inputs.   *)
(* SpecRefresh concurrent callers of SalesforceClient.RefreshToken.        *)
(***************************************************************************)
EXTENDS Integers, Sequences, FiniteSets, TLC

\* ------------------------------------------------------------------ bounds

\* Largest configured maxRetries explored.
MaxRetriesBound == 2
\* Cap on the sends of one logical call (doRequest's 401 recursion has none).
MaxSends == 5
\* Width, in bits, of the scaled-down signed duration type (time.Duration is int64).
DurationBits == 10
\* Largest attempt number handed to the delay computations in SpecBackoff.
MaxAttempt == 7

\* ------------------------------------------------------- program constants

DefaultMaxRetries == 3
DefaultRetryAfter == 60
\* One second in model ticks (time.Second; one tick is 100 ms).
Second == 10

MaxDuration == 2 ^ (DurationBits - 1) - 1
MinDuration == 0 - 2 ^ (DurationBits - 1)

\* ------------------------------------------------------------- error model

Codes == {"UNABLE_TO_LOCK_ROW", "REQUEST_LIMIT_EXCEEDED", "INVALID_FIELD"}

\* An error value: its Go type (kind), the HTTP status and error code it carries,
\* RetryAfter (RateLimitError only) and whether it wraps the context's error.
Err(kind, status, code, ra, ctx) ==
  [kind |-> kind, status |-> status, code |-> code, ra |-> ra, ctx |-> ctx]

NoErr == Err("nil", 0, "", 0, FALSE)
\* ctx.Err(), returned bare by the select in the retry loops.
CtxErr == Err("ctx", 0, "", 0, TRUE)
\* fmt.Errorf("request failed: %w", err) around a transport failure.
TransportErr(ctx) == Err("wrapped", 0, "", 0, ctx)

\* A server response: status, the shape of its body, the errorCode of the
\* (first) error in it, and the Retry-After header (-1: absent or unparseable).
Resp(status, shape, code, ra) ==
  [status |-> status, shape |-> shape, code |-> code, ra |-> ra]

NoResp == Resp(0, "none", "", -1)

ErrorBodies ==
  {<<sh, c>> : sh \in {"array", "object"}, c \in Codes}
    \cup {<<"opaque", "">>, <<"autherr", "">>}

Responses ==
  {Resp(200, "body", "", -1), Resp(304, "opaque", "", -1)}
    \cup {Resp(429, "opaque", "", ra) : ra \in {-1, 1, 5}}
    \cup {Resp(s, b[1], b[2], -1) : s \in {400, 401, 500, 503}, b \in ErrorBodies}

\* ------------------------------------------------------- error classifier

\* types.ParseAPIError of package types (src/types/types.go): a non-empty JSON
\* array gives APIErrors, an object with an errorCode gives *APIError, anything
\* else an *APIError whose code is HTTP_<status>.
ParseAPIError(status, r) ==
  CASE r.shape = "array" -> Err("APIErrors", status, r.code, 0, FALSE)
    [] r.shape = "object" -> Err("APIError", status, r.code, 0, FALSE)
    [] OTHER -> Err("APIError", status, "HTTP", 0, FALSE)

\* ParseAPIError of the shared types package (src/unnamed/part_007): as above,
\* then an object with an "error" field gives *AuthError, and anything else an
\* *APIError with no code.
ParseAPIErrorShared(status, r) ==
  CASE r.shape = "array" -> Err("APIErrors", status, r.code, 0, FALSE)
    [] r.shape = "object" -> Err("APIError", status, r.code, 0, FALSE)
    [] r.shape = "autherr" -> Err("AuthError", status, "", 0, FALSE)
    [] OTHER -> Err("APIError", status, "", 0, FALSE)

\* A classifier that retries every error status; NoRetryOnClientError depends
\* on the difference.
IsRetryableAnyStatus(e) == e.status >= 400

\* APIError.IsRetryable of package types (src/types/types.go).
IsRetryable(e) ==
  \/ e.code \in {"REQUEST_LIMIT_EXCEEDED", "UNABLE_TO_LOCK_ROW"}
  \/ e.status = 429
  \/ e.status >= 500

\* APIError.IsRetryable of the shared types package (src/unnamed/part_007).
IsRetryableShared(e) ==
  e.status = 503 \/ e.status = 429 \/ e.status = 504

\* The types package a build of the TokenProvider executor links.
TypesPkgs == {"types", "shared"}

ParseWith(p, status, r) ==
  IF p = "types" THEN ParseAPIError(status, r) ELSE ParseAPIErrorShared(status, r)

APIErrorRetryableWith(p, e) ==
  IF p = "types" THEN IsRetryable(e) ELSE IsRetryableShared(e)

\* isRetryable of the TokenProvider executor (src/http/client.go): only
\* *RateLimitError and *APIError are looked at.
isRetryable(p, e) ==
  IF e.kind = "RateLimitError" THEN TRUE
  ELSE IF e.kind = "APIError" THEN APIErrorRetryableWith(p, e)
  ELSE FALSE

\* types.IsRateLimitError (src/types/types.go).
IsRateLimitError(e) ==
  IF e.kind = "RateLimitError" THEN TRUE
  ELSE IF e.kind = "APIError" THEN e.code = "REQUEST_LIMIT_EXCEEDED" \/ e.status = 429
  ELSE FALSE

\* types.IsRetryableError (src/types/types.go), used by the Config executor:
\* APIErrors is judged by its first element.
IsRetryableError(e) ==
  IF e.kind = "APIError" THEN IsRetryable(e)
  ELSE IF e.kind = "APIErrors" THEN IsRetryable(e)
  ELSE IsRateLimitError(e)

\* ---------------------------------------------------------------- backoff

\* Conversion float64 -> time.Duration truncates toward zero.
TruncDiv(a, b) == IF a >= 0 THEN a \div b ELSE 0 - ((0 - a) \div b)

\* What a float64 -> int64 conversion of an out-of-range value may give
\* (implementation-dependent in Go: the minimum on amd64, saturation on arm64).
OverflowResults == {MinDuration, MaxDuration}

\* time.Duration(x) for the real value num/100.
ToDuration(num, ov) ==
  LET t == TruncDiv(num, 100)
  IN IF t > MaxDuration \/ t < MinDuration THEN ov ELSE t

\* The jitter factor 0.2 * (rand.Float64()*2 - 1), in percent: rand.Float64()
\* is in [0, 1), so the factor is in [-20, 20).
JitterDraws == {-20, -7, 0, 19}

\* Client.calculateBackoff (src/http/client.go): j is the jitter draw, ov the
\* result of an out-of-range conversion.
calculateBackoff(waitMin, waitMax, att, j, ov) ==
  LET wait == waitMin * (2 ^ att)
      d == ToDuration(wait * (100 + j), ov)
  IN IF d > waitMax THEN waitMax ELSE d

\* int64 multiplication wraps.
Wrap(x) == ((x - MinDuration) % (2 ^ DurationBits)) + MinDuration

\* The delay of the Config executor's doRequest before attempt att >= 1
\* (src/apex/service.go): retryDelay * time.Duration(math.Pow(2, att-1)).
retryDelayFor(retryDelay, att, ov) ==
  Wrap(retryDelay * ToDuration((2 ^ (att - 1)) * 100, ov))

\* ------------------------------------------------------------------ state

VARIABLES
  exec,         \* which executor runs the call: "TokenProvider" or "Config"
  pkg,          \* the types package the executor is built against
  strategy,     \* the authenticator: "refresh" (OAuth refresh token) or "token"
  cfg,          \* [maxRetries, waitMin, waitMax]: the executor's retry fields
  pc,           \* "call" | "inflight" | "refresh" | "wait" | "done"
  attempt,      \* the retry loop's counter
  lastErr,      \* the retry loop's lastErr
  result,       \* what the call returned: [tag, err]
  cancelled,    \* ctx.Done() is closed
  token,        \* SalesforceClient.token (0: nil, else the id of the token)
  accessToken,  \* http Client.accessToken (0: "")
  issued,       \* tokens issued by the token endpoint so far
  sends,        \* requests put on the wire by this call
  refreshes,    \* RefreshToken calls made by this call
  replays,      \* recursive doRequest calls made after a refresh
  exchanges,    \* exchanges sent to the token endpoint
  sentTok,      \* the token the last send carried
  lastResp,     \* the last response received
  waitDelay,    \* the delay of the wait in progress
  scen,         \* progress along "first send 401, refresh succeeds, replay 2xx"
  cancelledInWait, \* the context was cancelled while the call was parked in a wait
  sendsAtCancel,   \* sends at that moment
  onlyRetryable,   \* every send so far was answered, with an error the executor retries
  only401,         \* every send so far was answered 401 and every refresh succeeded
  endedByCtx       \* the step that ended the call was caused by the context's cancellation

callVars ==
  <<exec, pkg, strategy, cfg, pc, attempt, lastErr, result, cancelled, token,
    accessToken, issued, sends, refreshes, replays, exchanges, sentTok, lastResp,
    waitDelay, scen, cancelledInWait, sendsAtCancel, onlyRetryable, only401,
    endedByCtx>>

\* scen after the event ev: "start" -> "got401" (the first send is answered 401)
\* -> "refreshed" (the refresh succeeds) -> "replayed2xx" (the replay is answered
\* 2xx); any other event leaves the scenario ("off").
Push(sc, ev) ==
  CASE sc = "start" /\ ev = "401" -> "got401"
    [] sc = "got401" /\ ev = "refresh_ok" -> "refreshed"
    [] sc = "refreshed" /\ ev = "2xx" -> "replayed2xx"
    [] OTHER -> "off"

\* The event of a response with this status.
StatusEvent(status) ==
  IF status = 401 THEN "401"
  ELSE IF status >= 200 /\ status < 300 THEN "2xx"
  ELSE "other"

\* The builds: the TokenProvider executor against either types package, the
\* Config executor against package types (the only one with IsRetryableError).
Builds == {<<"TokenProvider", "types">>, <<"TokenProvider", "shared">>, <<"Config", "types">>}

\* (waitMin, waitMax) pairs given to WithRetry; the first is NewClient's default.
WaitConfigs == {<<Second, 30 * Second>>, <<Second, 15>>, <<0, 0>>}

\* http.NewClient of the Config executor (src/apex/service.go): MaxRetries 0
\* becomes DefaultMaxRetries, RetryDelay 0 becomes one second.
NewClient(m, d) ==
  [maxRetries |-> IF m = 0 THEN DefaultMaxRetries ELSE m,
   waitMin |-> IF d = 0 THEN Second ELSE d,
   waitMax |-> 0]

\* http.NewClient with WithRetry of the TokenProvider executor (src/http/client.go).
WithRetry(m, wmin, wmax) == [maxRetries |-> m, waitMin |-> wmin, waitMax |-> wmax]

Ok(body) == [tag |-> "ok", err |-> NoErr]
Failed(e) == [tag |-> "err", err |-> e]
\* fmt.Errorf("... after %d attempts: %w", lastErr) / "max retries exceeded: %w".
Exhausted(e) == [tag |-> "exhausted", err |-> e]
NoResult == [tag |-> "none", err |-> NoErr]

InitCall ==
  /\ \E b \in Builds : exec = b[1] /\ pkg = b[2]
  /\ strategy \in {"refresh", "token"}
  /\ \E m \in 0..MaxRetriesBound, w \in WaitConfigs :
       cfg = IF exec = "Config" THEN NewClient(m, w[1]) ELSE WithRetry(m, w[1], w[2])
  /\ pc = "call"
  /\ attempt = 0
  /\ lastErr = NoErr
  /\ result = NoResult
  /\ cancelled = FALSE
  /\ \E connected \in BOOLEAN :
       /\ issued = IF connected THEN 1 ELSE 0
       /\ token = IF connected /\ exec = "TokenProvider" THEN 1 ELSE 0
       /\ accessToken = IF connected THEN 1 ELSE 0
  /\ sends = 0
  /\ refreshes = 0
  /\ replays = 0
  /\ exchanges = 0
  /\ sentTok = 0
  /\ lastResp = NoResp
  /\ waitDelay = 0
  /\ scen = "start"
  /\ cancelledInWait = FALSE
  /\ sendsAtCancel = 0
  /\ onlyRetryable = TRUE
  /\ only401 = TRUE
  /\ endedByCtx = FALSE

\* ------------------------------------------- the TokenProvider executor

RateLimitError(ra) == Err("RateLimitError", 429, "", ra, FALSE)

\* A loop that runs one iteration too many; Exhaustion depends on the
\* difference.
RequestLoopsOneMore(att, m) == att <= m + 1

\* The loop condition of Client.Request: attempt <= c.maxRetries.
RequestLoops(att, m) == att <= m

\* A wait that sleeps through cancellation (time.Sleep in place of the
\* select); CancelDuringWait depends on the difference.
RequestTimerAlwaysFires == TRUE

\* The select of Client.Request may take time.After(wait): the timer wins while
\* the context is live; both channels may be ready on entry when the delay is
\* not positive; a context cancelled while the goroutine is parked wins.
RequestTimerMayFire == ~cancelled \/ (waitDelay <= 0 /\ ~cancelledInWait)

\* Client.Request, the loop body after doRequest returned the error e
\* (src/http/client.go): a non-retryable error is returned, a retryable one
\* waits calculateBackoff(attempt) while attempts remain, and the loop's exit
\* wraps lastErr.
RequestOnError(e, byCtx) ==
  /\ lastErr' = e
  /\ IF ~isRetryable(pkg, e)
       THEN /\ pc' = "done"
            /\ result' = Failed(e)
            /\ endedByCtx' = byCtx
            /\ UNCHANGED <<attempt, waitDelay>>
       ELSE IF attempt < cfg.maxRetries
         THEN /\ pc' = "wait"
              /\ waitDelay' \in {calculateBackoff(cfg.waitMin, cfg.waitMax, attempt, j, ov) :
                                  j \in JitterDraws, ov \in OverflowResults}
              /\ UNCHANGED <<attempt, result, endedByCtx>>
         ELSE /\ attempt' = attempt + 1
              /\ IF RequestLoops(attempt + 1, cfg.maxRetries)
                   THEN /\ pc' = "call"
                        /\ UNCHANGED <<result, endedByCtx>>
                   ELSE /\ pc' = "done"
                        /\ result' = Exhausted(e)
                        /\ endedByCtx' = byCtx
              /\ UNCHANGED waitDelay

\* Client.doRequest up to c.Do (src/http/client.go): the token is the provider's
\* when it holds one, else the client's own; a request whose context is already
\* done fails in c.Do without reaching the wire.
doRequest ==
  /\ pc = "call"
  /\ exec = "TokenProvider"
  /\ IF cancelled
       THEN /\ RequestOnError(TransportErr(TRUE), TRUE)
            /\ scen' = Push(scen, "transport")
            /\ onlyRetryable' = FALSE
            /\ only401' = FALSE
            /\ UNCHANGED <<sends, sentTok>>
       ELSE /\ sends < MaxSends
            /\ pc' = "inflight"
            /\ sends' = sends + 1
            /\ sentTok' = IF token # 0 THEN token ELSE accessToken
            /\ UNCHANGED <<attempt, lastErr, result, waitDelay, scen, onlyRetryable,
                           only401, endedByCtx>>
  /\ UNCHANGED <<exec, pkg, strategy, cfg, cancelled, token, accessToken, issued,
                 refreshes, replays, exchanges, lastResp, cancelledInWait, sendsAtCancel>>

\* Client.doRequest from the response on (src/http/client.go): 2xx returns the
\* body, 429 a RateLimitError carrying Retry-After (60 when absent), 401 calls
\* RefreshToken, anything else returns ParseAPIError.
doRequestRespond(r) ==
  /\ pc = "inflight"
  /\ exec = "TokenProvider"
  /\ lastResp' = r
  /\ scen' = Push(scen, StatusEvent(r.status))
  /\ IF r.status >= 200 /\ r.status < 300
       THEN /\ pc' = "done"
            /\ result' = Ok(r)
            /\ onlyRetryable' = FALSE
            /\ only401' = FALSE
            /\ UNCHANGED <<attempt, lastErr, waitDelay, refreshes, exchanges, endedByCtx>>
       ELSE IF r.status = 429
         THEN /\ RequestOnError(RateLimitError(IF r.ra = -1 THEN DefaultRetryAfter ELSE r.ra),
                                FALSE)
              /\ only401' = FALSE
              /\ UNCHANGED <<onlyRetryable, refreshes, exchanges>>
         ELSE IF r.status = 401
           THEN /\ pc' = "refresh"
                /\ refreshes' = refreshes + 1
                /\ exchanges' = IF strategy = "refresh" THEN exchanges + 1 ELSE exchanges
                /\ onlyRetryable' = FALSE
                /\ UNCHANGED <<attempt, lastErr, result, waitDelay, only401, endedByCtx>>
           ELSE /\ RequestOnError(ParseWith(pkg, r.status, r), FALSE)
                /\ onlyRetryable' = (onlyRetryable /\ isRetryable(pkg, ParseWith(pkg, r.status, r)))
                /\ only401' = FALSE
                /\ UNCHANGED <<refreshes, exchanges>>
  /\ UNCHANGED <<exec, pkg, strategy, cfg, cancelled, token, accessToken, issued,
                 sends, replays, sentTok, cancelledInWait, sendsAtCancel>>

\* A pre-issued-token strategy that refreshes like the OAuth one;
\* StaticTokenNoRefresh depends on the difference.
RefreshOutcomesAnyStrategy ==
  {"ok", "rejected", "transport"} \cup (IF cancelled THEN {"ctx"} ELSE {})

\* How the exchange RefreshToken started can end.
RefreshOutcomes ==
  IF strategy = "token" THEN {"unsupported"}
  ELSE {"ok", "rejected", "transport"} \cup (IF cancelled THEN {"ctx"} ELSE {})

\* A RefreshToken that returns nil without storing the new token;
\* RefreshAndReplay depends on the difference.
RefreshTokenDoneNoStore(o) ==
  /\ pc = "refresh"
  /\ exec = "TokenProvider"
  /\ o \in RefreshOutcomes
  /\ IF o = "ok"
       THEN /\ issued' = issued + 1
            /\ pc' = "call"
            /\ replays' = replays + 1
            /\ scen' = Push(scen, "refresh_ok")
            /\ UNCHANGED <<attempt, lastErr, result, waitDelay, only401, endedByCtx,
                           token, accessToken>>
       ELSE /\ RequestOnError(ParseWith(pkg, lastResp.status, lastResp), o = "ctx")
            /\ scen' = Push(scen, "refresh_fail")
            /\ only401' = FALSE
            /\ UNCHANGED <<issued, token, accessToken, replays>>
  /\ UNCHANGED <<exec, pkg, strategy, cfg, cancelled, sends, refreshes, exchanges,
                 sentTok, lastResp, cancelledInWait, sendsAtCancel, onlyRetryable>>

\* SalesforceClient.RefreshToken returning into doRequest (src/client.go,
\* src/http/client.go): on success the new token is stored and doRequest calls
\* itself; on any failure the refresh error is dropped and the 401 response is
\* parsed into the returned error.
RefreshTokenDone(o) ==
  /\ pc = "refresh"
  /\ exec = "TokenProvider"
  /\ o \in RefreshOutcomes
  /\ IF o = "ok"
       THEN /\ issued' = issued + 1
            /\ token' = issued + 1
            /\ accessToken' = issued + 1
            /\ pc' = "call"
            /\ replays' = replays + 1
            /\ scen' = Push(scen, "refresh_ok")
            /\ UNCHANGED <<attempt, lastErr, result, waitDelay, only401, endedByCtx>>
       ELSE /\ RequestOnError(ParseWith(pkg, lastResp.status, lastResp), o = "ctx")
            /\ scen' = Push(scen, "refresh_fail")
            /\ only401' = FALSE
            /\ UNCHANGED <<issued, token, accessToken, replays>>
  /\ UNCHANGED <<exec, pkg, strategy, cfg, cancelled, sends, refreshes, exchanges,
                 sentTok, lastResp, cancelledInWait, sendsAtCancel, onlyRetryable>>

\* The select of Client.Request, time.After(wait) chosen (src/http/client.go):
\* continue, attempt++, and the loop condition.
RequestWaitTimer ==
  /\ pc = "wait"
  /\ exec = "TokenProvider"
  /\ RequestTimerMayFire
  /\ attempt' = attempt + 1
  /\ waitDelay' = 0
  /\ IF RequestLoops(attempt + 1, cfg.maxRetries)
       THEN /\ pc' = "call"
            /\ UNCHANGED result
       ELSE /\ pc' = "done"
            /\ result' = Exhausted(lastErr)
  /\ UNCHANGED <<exec, pkg, strategy, cfg, lastErr, cancelled, token,
                 accessToken, issued, sends, refreshes, replays, exchanges, sentTok,
                 lastResp, scen, cancelledInWait, sendsAtCancel, onlyRetryable,
                 only401, endedByCtx>>

\* The select of Client.Request, ctx.Done() chosen: return nil, ctx.Err().
RequestWaitCancelled ==
  /\ pc = "wait"
  /\ exec = "TokenProvider"
  /\ cancelled
  /\ pc' = "done"
  /\ result' = Failed(CtxErr)
  /\ endedByCtx' = TRUE
  /\ UNCHANGED <<exec, pkg, strategy, cfg, attempt, lastErr, cancelled, token,
                 accessToken, issued, sends, refreshes, replays, exchanges, sentTok,
                 lastResp, waitDelay, scen, cancelledInWait, sendsAtCancel,
                 onlyRetryable, only401>>

\* A send in flight fails in the transport (c.Do returns an error): the
\* context's error once it is cancelled, or a network error at any time.
\* Both executors wrap it ("request failed: %w") and neither retries it.
TransportFailures == IF cancelled THEN {TRUE, FALSE} ELSE {FALSE}

doRequestTransportError(byCtx) ==
  /\ pc = "inflight"
  /\ exec = "TokenProvider"
  /\ byCtx \in TransportFailures
  /\ RequestOnError(TransportErr(byCtx), byCtx)
  /\ scen' = Push(scen, "transport")
  /\ onlyRetryable' = FALSE
  /\ only401' = FALSE
  /\ UNCHANGED <<exec, pkg, strategy, cfg, cancelled, token, accessToken, issued,
                 sends, refreshes, replays, exchanges, sentTok, lastResp,
                 cancelledInWait, sendsAtCancel>>

\* ------------------------------------------------- the Config executor

\* The loop condition of the Config executor's doRequest: attempt <= c.maxRetries.
CfgLoops(att, m) == att <= m

\* The select at the head of that loop may take time.After(delay).
CfgTimerMayFire == ~cancelled \/ (waitDelay <= 0 /\ ~cancelledInWait)

\* Client.doRequest of the Config executor, after executeRequest returned the
\* error e (src/apex/service.go): a non-retryable error is returned at once; a
\* retryable one becomes lastErr, and the next iteration first waits
\* retryDelay * 2^(attempt-1); the loop's exit wraps lastErr.
CfgOnError(e, byCtx) ==
  IF ~IsRetryableError(e)
    THEN /\ pc' = "done"
         /\ result' = Failed(e)
         /\ endedByCtx' = byCtx
         /\ UNCHANGED <<attempt, lastErr, waitDelay>>
    ELSE /\ lastErr' = e
         /\ attempt' = attempt + 1
         /\ IF CfgLoops(attempt + 1, cfg.maxRetries)
              THEN /\ pc' = "wait"
                   /\ waitDelay' \in {retryDelayFor(cfg.waitMin, attempt + 1, ov) :
                                       ov \in OverflowResults}
                   /\ UNCHANGED <<result, endedByCtx>>
              ELSE /\ pc' = "done"
                   /\ result' = Exhausted(e)
                   /\ endedByCtx' = byCtx
                   /\ UNCHANGED waitDelay

\* Client.executeRequest up to httpClient.Do (src/apex/service.go).
executeRequest ==
  /\ pc = "call"
  /\ exec = "Config"
  /\ IF cancelled
       THEN /\ CfgOnError(TransportErr(TRUE), TRUE)
            /\ scen' = Push(scen, "transport")
            /\ onlyRetryable' = FALSE
            /\ only401' = FALSE
            /\ UNCHANGED <<sends, sentTok>>
       ELSE /\ sends < MaxSends
            /\ pc' = "inflight"
            /\ sends' = sends + 1
            /\ sentTok' = accessToken
            /\ UNCHANGED <<attempt, lastErr, result, waitDelay, scen, onlyRetryable,
                           only401, endedByCtx>>
  /\ UNCHANGED <<exec, pkg, strategy, cfg, cancelled, token, accessToken, issued,
                 refreshes, replays, exchanges, lastResp, cancelledInWait, sendsAtCancel>>

\* Client.executeRequest from the response on (src/apex/service.go): a status
\* of 400 or more returns ParseAPIError, any other status returns the body.
executeRequestRespond(r) ==
  /\ pc = "inflight"
  /\ exec = "Config"
  /\ lastResp' = r
  /\ scen' = Push(scen, StatusEvent(r.status))
  /\ only401' = FALSE
  /\ IF r.status >= 400
       THEN /\ CfgOnError(ParseAPIError(r.status, r), FALSE)
            /\ onlyRetryable' = (onlyRetryable /\ IsRetryableError(ParseAPIError(r.status, r)))
       ELSE /\ pc' = "done"
            /\ result' = Ok(r)
            /\ onlyRetryable' = FALSE
            /\ UNCHANGED <<attempt, lastErr, waitDelay, endedByCtx>>
  /\ UNCHANGED <<exec, pkg, strategy, cfg, cancelled, token, accessToken, issued,
                 sends, refreshes, replays, exchanges, sentTok, cancelledInWait,
                 sendsAtCancel>>

executeRequestTransportError(byCtx) ==
  /\ pc = "inflight"
  /\ exec = "Config"
  /\ byCtx \in TransportFailures
  /\ CfgOnError(TransportErr(byCtx), byCtx)
  /\ scen' = Push(scen, "transport")
  /\ onlyRetryable' = FALSE
  /\ only401' = FALSE
  /\ UNCHANGED <<exec, pkg, strategy, cfg, cancelled, token, accessToken, issued,
                 sends, refreshes, replays, exchanges, sentTok, lastResp,
                 cancelledInWait, sendsAtCancel>>

\* The select at the head of the Config executor's loop, time.After(delay) chosen.
CfgWaitTimer ==
  /\ pc = "wait"
  /\ exec = "Config"
  /\ CfgTimerMayFire
  /\ pc' = "call"
  /\ waitDelay' = 0
  /\ UNCHANGED <<exec, pkg, strategy, cfg, attempt, lastErr, result, cancelled, token,
                 accessToken, issued, sends, refreshes, replays, exchanges, sentTok,
                 lastResp, scen, cancelledInWait, sendsAtCancel, onlyRetryable,
                 only401, endedByCtx>>

\* The same select, ctx.Done() chosen: return nil, ctx.Err().
CfgWaitCancelled ==
  /\ pc = "wait"
  /\ exec = "Config"
  /\ cancelled
  /\ pc' = "done"
  /\ result' = Failed(CtxErr)
  /\ endedByCtx' = TRUE
  /\ UNCHANGED <<exec, pkg, strategy, cfg, attempt, lastErr, cancelled, token,
                 accessToken, issued, sends, refreshes, replays, exchanges, sentTok,
                 lastResp, waitDelay, scen, cancelledInWait, sendsAtCancel,
                 onlyRetryable, only401>>

\* ------------------------------------------------------------ environment

\* The caller cancels the context, or its deadline passes.
Cancel ==
  /\ pc # "done"
  /\ ~cancelled
  /\ cancelled' = TRUE
  /\ cancelledInWait' = (pc = "wait")
  /\ sendsAtCancel' = sends
  /\ UNCHANGED <<exec, pkg, strategy, cfg, pc, attempt, lastErr, result, token,
                 accessToken, issued, sends, refreshes, replays, exchanges, sentTok,
                 lastResp, waitDelay, scen, onlyRetryable, only401, endedByCtx>>

\* ------------------------------------------------ the delay computations

VARIABLES
  bIn,     \* [waitMin, waitMax, att, j, ov]: the inputs of one delay computation
  bpc,     \* "in" | "backoff" | "retryDelay": which computation has run
  bDelay   \* its result

backoffVars == <<bIn, bpc, bDelay>>

\* Configured durations explored, in ticks: negative, zero, the defaults, large.
DurationInputs == {-10, 0, 3, Second, 25, 30 * Second}

NoInput == [waitMin |-> 0, waitMax |-> 0, att |-> 0, j |-> 0, ov |-> 0]

InitBackoff ==
  /\ bIn \in [waitMin : DurationInputs, waitMax : DurationInputs, att : 0..MaxAttempt,
              j : JitterDraws, ov : OverflowResults]
  /\ bpc = "in"
  /\ bDelay = 0

\* Client.Request computing the wait before retry att+1 (src/http/client.go).
ComputeBackoff ==
  /\ bpc = "in"
  /\ bpc' = "backoff"
  /\ bDelay' = calculateBackoff(bIn.waitMin, bIn.waitMax, bIn.att, bIn.j, bIn.ov)
  /\ UNCHANGED bIn

\* The Config executor computing the delay before attempt att (src/apex/service.go).
ComputeRetryDelay ==
  /\ bpc = "in"
  /\ bIn.att >= 1
  /\ bpc' = "retryDelay"
  /\ bDelay' = retryDelayFor(bIn.waitMin, bIn.att, bIn.ov)
  /\ UNCHANGED bIn

\* --------------------------------------- concurrent callers of RefreshToken

VARIABLES
  rpc,        \* each caller's position in RefreshToken
  rres,       \* what RefreshToken returned to it: "none" | "ok" | "err"
  rtok,       \* the token its exchange returned (0: none)
  cmu,        \* holder of SalesforceClient.mu (0 when unlocked)
  ctoken,     \* SalesforceClient.token
  hAccess,    \* http Client.accessToken
  authTok,    \* OAuthRefreshAuthenticator.currentToken
  nIssued,    \* tokens issued by the token endpoint
  nExchanges, \* exchanges sent to the token endpoint
  lateStart   \* some caller started after another had returned

refreshVars ==
  <<rpc, rres, rtok, cmu, ctoken, hAccess, authTok, nIssued, nExchanges, lateStart>>

\* Number of goroutines calling RefreshToken.
NumCallers == 2
Callers == 1..NumCallers

InitRefresh ==
  /\ rpc = [p \in Callers |-> "idle"]
  /\ rres = [p \in Callers |-> "none"]
  /\ rtok = [p \in Callers |-> 0]
  /\ cmu = 0
  /\ ctoken = 1
  /\ hAccess = 1
  /\ authTok = 1
  /\ nIssued = 1
  /\ nExchanges = 0
  /\ lateStart = FALSE

\* SalesforceClient.RefreshToken entering authenticator.Refresh, which sends
\* the exchange (src/client.go, src/http/client.go): nothing is locked.
RefreshTokenCall(p) ==
  /\ rpc[p] = "idle"
  /\ rpc' = [rpc EXCEPT ![p] = "exchange"]
  /\ nExchanges' = nExchanges + 1
  /\ lateStart' = (lateStart \/ \E q \in Callers : rpc[q] = "done")
  /\ UNCHANGED <<rres, rtok, cmu, ctoken, hAccess, authTok, nIssued>>

\* OAuthRefreshAuthenticator.Refresh, the exchange answered (src/http/client.go):
\* a rejection is returned to the caller, a token goes on to be stored.
RefreshExchangeDone(p, ok) ==
  /\ rpc[p] = "exchange"
  /\ IF ok
       THEN /\ nIssued' = nIssued + 1
            /\ rtok' = [rtok EXCEPT ![p] = nIssued + 1]
            /\ rpc' = [rpc EXCEPT ![p] = "authStore"]
            /\ UNCHANGED rres
       ELSE /\ rres' = [rres EXCEPT ![p] = "err"]
            /\ rpc' = [rpc EXCEPT ![p] = "done"]
            /\ UNCHANGED <<nIssued, rtok>>
  /\ UNCHANGED <<cmu, ctoken, hAccess, authTok, nExchanges, lateStart>>

\* OAuthRefreshAuthenticator.Refresh storing currentToken under a.mu.
RefreshAuthStore(p) ==
  /\ rpc[p] = "authStore"
  /\ authTok' = rtok[p]
  /\ rpc' = [rpc EXCEPT ![p] = "lock"]
  /\ UNCHANGED <<rres, rtok, cmu, ctoken, hAccess, nIssued, nExchanges, lateStart>>

\* SalesforceClient.RefreshToken: c.mu.Lock().
RefreshLock(p) ==
  /\ rpc[p] = "lock"
  /\ cmu = 0
  /\ cmu' = p
  /\ rpc' = [rpc EXCEPT ![p] = "store"]
  /\ UNCHANGED <<rres, rtok, ctoken, hAccess, authTok, nIssued, nExchanges, lateStart>>

\* SalesforceClient.RefreshToken: store the token, set the http client's
\* access token, c.mu.Unlock(), return nil.
RefreshStore(p) ==
  /\ rpc[p] = "store"
  /\ cmu = p
  /\ ctoken' = rtok[p]
  /\ hAccess' = rtok[p]
  /\ cmu' = 0
  /\ rres' = [rres EXCEPT ![p] = "ok"]
  /\ rpc' = [rpc EXCEPT ![p] = "done"]
  /\ UNCHANGED <<rtok, authTok, nIssued, nExchanges, lateStart>>

\* A caller comes back for another RefreshToken.
RefreshAgain(p) ==
  /\ rpc[p] = "done"
  /\ nExchanges < MaxSends
  /\ rpc' = [rpc EXCEPT ![p] = "idle"]
  /\ rres' = [rres EXCEPT ![p] = "none"]
  /\ rtok' = [rtok EXCEPT ![p] = 0]
  /\ UNCHANGED <<cmu, ctoken, hAccess, authTok, nIssued, nExchanges, lateStart>>

\* ------------------------------ credentials written while requests are sent

VARIABLES
  kexec,     \* "TokenProvider" (SalesforceClient) or "Config" (Client of part_006)
  kHttpBase, \* http Client.baseURL (0: "")
  kHttpTok,  \* http Client.accessToken, tagged with the credential it came from
  kProvTok,  \* SalesforceClient.token (id 0: nil)
  kMu,       \* SalesforceClient.mu is write-locked
  kW,        \* the goroutine storing a credential: [pc, op, cred]
  kR,        \* the goroutine sending a request: [pc, base, tok]
  kIssued,   \* credentials issued so far
  kSent      \* the token and base address of the last request sent

credVars == <<kexec, kHttpBase, kHttpTok, kProvTok, kMu, kW, kR, kIssued, kSent>>

\* Credentials issued in one run.
MaxCreds == 3
\* Instance addresses a credential may name.
Urls == {1, 2}

\* A credential: its access token (id) and its instance URL.
Cred(id, url) == [id |-> id, url |-> url]
NoCred == Cred(0, 0)

CredOps == {"Connect", "RefreshToken", "SetAccessToken"}

\* The order in which an operation stores the two fields of the http client:
\* Connect stores the base URL first; RefreshToken and SetAccessToken of
\* SalesforceClient the access token first; SetAccessToken of the Config-based
\* Client the base URL first, and its RefreshToken stores the access token only.
FirstWrite(e, op) ==
  IF e = "TokenProvider"
    THEN (IF op = "Connect" THEN "base" ELSE "token")
    ELSE (IF op = "RefreshToken" THEN "token" ELSE "base")

SecondWrite(e, op) ==
  IF e = "TokenProvider"
    THEN (IF op = "Connect" THEN "token" ELSE "base")
    ELSE (IF op = "RefreshToken" THEN "none" ELSE "token")

InitCred ==
  /\ kexec \in {"TokenProvider", "Config"}
  /\ \E u \in Urls :
       /\ kHttpBase = u
       /\ kHttpTok = Cred(1, u)
       /\ kProvTok = IF kexec = "TokenProvider" THEN Cred(1, u) ELSE NoCred
  /\ kMu = FALSE
  /\ kW = [pc |-> "idle", op |-> "none", cred |-> NoCred]
  /\ kR = [pc |-> "idle", base |-> 0, tok |-> NoCred]
  /\ kIssued = 1
  /\ kSent = [tok |-> NoCred, base |-> 0]

\* Connect / RefreshToken: the authenticator's exchange returns a credential;
\* SetAccessToken: the caller supplies one. Nothing is locked yet.
CredObtain(op, u) ==
  /\ kW.pc = "idle"
  /\ kIssued < MaxCreds
  /\ kIssued' = kIssued + 1
  /\ kW' = [pc |-> "got", op |-> op, cred |-> Cred(kIssued + 1, u)]
  /\ UNCHANGED <<kexec, kHttpBase, kHttpTok, kProvTok, kMu, kR, kSent>>

\* SalesforceClient: c.mu.Lock(); c.token = token.
CredLock ==
  /\ kexec = "TokenProvider"
  /\ kW.pc = "got"
  /\ ~kMu
  /\ kMu' = TRUE
  /\ kProvTok' = kW.cred
  /\ kW' = [kW EXCEPT !.pc = "first"]
  /\ UNCHANGED <<kexec, kHttpBase, kHttpTok, kR, kIssued, kSent>>

\* The first of the two stores into the http client (the Config-based Client
\* takes no lock before it).
CredFirstWrite ==
  /\ kW.pc = IF kexec = "TokenProvider" THEN "first" ELSE "got"
  /\ IF FirstWrite(kexec, kW.op) = "base"
       THEN kHttpBase' = kW.cred.url /\ UNCHANGED kHttpTok
       ELSE kHttpTok' = kW.cred /\ UNCHANGED kHttpBase
  /\ kW' = [kW EXCEPT !.pc = "second"]
  /\ UNCHANGED <<kexec, kProvTok, kMu, kR, kIssued, kSent>>

\* The second store, and c.mu.Unlock() in SalesforceClient.
CredSecondWrite ==
  /\ kW.pc = "second"
  /\ CASE SecondWrite(kexec, kW.op) = "base" ->
            kHttpBase' = kW.cred.url /\ UNCHANGED kHttpTok
       [] SecondWrite(kexec, kW.op) = "token" ->
            kHttpTok' = kW.cred /\ UNCHANGED kHttpBase
       [] OTHER -> UNCHANGED <<kHttpBase, kHttpTok>>
  /\ kMu' = FALSE
  /\ kW' = [pc |-> "idle", op |-> "none", cred |-> NoCred]
  /\ UNCHANGED <<kexec, kProvTok, kR, kIssued, kSent>>

\* A request reads the http client's fields: doRequest of the TokenProvider
\* executor reads both under one RLock; executeRequest of the Config executor
\* reads baseURL when it builds the URL.
ReqReadClient ==
  /\ kR.pc = "idle"
  /\ kR' = [pc |-> "read", base |-> kHttpBase,
            tok |-> IF kexec = "TokenProvider" THEN kHttpTok ELSE NoCred]
  /\ UNCHANGED <<kexec, kHttpBase, kHttpTok, kProvTok, kMu, kW, kIssued, kSent>>

\* The request is completed and sent: doRequest takes the provider's token and
\* its instance URL when GetToken returns one (GetToken waits for c.mu);
\* executeRequest reads accessToken when it sets the Authorization header.
ReqSend ==
  /\ kR.pc = "read"
  /\ IF kexec = "TokenProvider"
       THEN /\ ~kMu
            /\ kSent' = [tok |-> IF kProvTok.id # 0 THEN kProvTok ELSE kR.tok,
                         base |-> IF kProvTok.id # 0 /\ kProvTok.url # 0
                                    THEN kProvTok.url ELSE kR.base]
       ELSE kSent' = [tok |-> kHttpTok, base |-> kR.base]
  /\ kR' = [pc |-> "idle", base |-> 0, tok |-> NoCred]
  /\ UNCHANGED <<kexec, kHttpBase, kHttpTok, kProvTok, kMu, kW, kIssued>>

\* ------------------------------------------------------- Token.IsExpired

VARIABLES
  tIn,      \* [now, issuedAt, expiresAt] in minutes (expiresAt 0: the zero time)
  tpc,      \* "in" | "types" | "shared": which package's IsExpired has run
  tExpired  \* its result

tokenVars == <<tIn, tpc, tExpired>>

\* Latest clock reading explored, in minutes.
MaxNow == 140
\* The safety margin of package types: 5 * time.Minute.
ExpiryMargin == 5
\* The lifetime package types assumes for a token with no expiry: 2 * time.Hour.
AssumedLifetime == 120

\* Token.IsExpired of package types (src/types/types.go).
IsExpired(t, now) ==
  IF t.expiresAt = 0
    THEN now - t.issuedAt > AssumedLifetime
    ELSE now > t.expiresAt - ExpiryMargin

\* Token.IsExpired of the shared types package (src/unnamed/part_007).
IsExpiredShared(t, now) ==
  IF t.expiresAt = 0 THEN FALSE ELSE now > t.expiresAt

InitToken ==
  /\ tIn \in [now : 1..MaxNow, issuedAt : {1, 15}, expiresAt : {0, 20, 121, 135}]
  /\ tIn.issuedAt <= tIn.now
  /\ tpc = "in"
  /\ tExpired = FALSE

TokenIsExpired ==
  /\ tpc = "in"
  /\ tpc' = "types"
  /\ tExpired' = IsExpired(tIn, tIn.now)
  /\ UNCHANGED tIn

TokenIsExpiredShared ==
  /\ tpc = "in"
  /\ tpc' = "shared"
  /\ tExpired' = IsExpiredShared(tIn, tIn.now)
  /\ UNCHANGED tIn

\* ------------------------------------------- Authenticate and Refresh

VARIABLES
  aKind,      \* the authenticator
  aOp,        \* the operation called: "Authenticate" or "Refresh"
  apc,        \* "idle" | "oauth" | "soap" | "done"
  aCalls,     \* calls of Authenticate / Refresh made so far
  aExchanges, \* exchanges the current call has sent to the authentication endpoint
  aRemote,    \* the classification the endpoint reported when it rejected ("": none)
  aResult     \* what the call returned: [tag, class]

authVars == <<aKind, aOp, apc, aCalls, aExchanges, aRemote, aResult>>

\* Calls of Authenticate / Refresh made on one authenticator.
MaxAuthCalls == 3

\* The authenticators: OAuthRefreshAuthenticator and PasswordAuthenticator of
\* src/http/client.go (package auth), RefreshTokenAuthenticator and
\* PasswordAuthenticator of src/unnamed/part_002, and the TokenAuthenticator of
\* both.
AuthKinds == {"OAuthRefresh", "Password", "RefreshTokenCfg", "PasswordCfg", "Token"}

\* How the endpoint answers a token exchange: a token, a JSON error body
\* {error, error_description}, a non-200 answer that is not JSON, or no answer.
ExchangeAnswers == {"ok", "invalid_grant", "invalid_client", "opaque", "transport"}

\* How the SOAP login answers: a session id, a non-200 status, a 200 without a
\* session id, or no answer.
SoapAnswers == {"ok", "fault", "nosession", "transport"}

AuthOk == [tag |-> "ok", class |-> ""]
\* *types.AuthError with the remote's error type.
AuthError(class) == [tag |-> "AuthError", class |-> class]
\* An error made with fmt.Errorf.
AuthOther == [tag |-> "error", class |-> ""]
AuthNone == [tag |-> "none", class |-> ""]

\* The error a rejected token exchange returns: package auth of
\* src/http/client.go returns the AuthError when the body is JSON and a plain
\* error otherwise; src/unnamed/part_002 always returns an AuthError, empty
\* when the body is not JSON.
ExchangeError(kind, ans) ==
  IF ans = "transport" THEN AuthOther
  ELSE IF ans = "opaque"
    THEN (IF kind \in {"OAuthRefresh", "Password"} THEN AuthOther ELSE AuthError(""))
  ELSE AuthError(ans)

InitAuth ==
  /\ aKind \in AuthKinds
  /\ aOp = "none"
  /\ apc = "idle"
  /\ aCalls = 0
  /\ aExchanges = 0
  /\ aRemote = ""
  /\ aResult = AuthNone

\* Authenticate or Refresh is called (Refresh of the password strategies is
\* Authenticate, Authenticate of the refresh-token strategies is Refresh): the
\* token strategy answers at once, the others send their token exchange.
Authenticate(op) ==
  /\ apc \in {"idle", "done"}
  /\ aCalls < MaxAuthCalls
  /\ aCalls' = aCalls + 1
  /\ aOp' = op
  /\ aRemote' = ""
  /\ IF aKind = "Token"
       THEN /\ apc' = "done"
            /\ aExchanges' = 0
            /\ aResult' = IF op = "Authenticate" THEN AuthOk
                          ELSE AuthError("refresh_not_supported")
       ELSE /\ apc' = "oauth"
            /\ aExchanges' = 1
            /\ aResult' = AuthNone
  /\ UNCHANGED aKind

\* The token exchange is answered (OAuthRefreshAuthenticator.Refresh,
\* authenticateOAuth, doTokenRequest): PasswordAuthenticator of
\* src/http/client.go goes on to authenticateSOAP after any failure.
authenticateOAuth(ans) ==
  /\ apc = "oauth"
  /\ aRemote' = IF ans \in {"invalid_grant", "invalid_client"} THEN ans ELSE ""
  /\ IF ans = "ok"
       THEN /\ apc' = "done"
            /\ aResult' = AuthOk
            /\ UNCHANGED aExchanges
       ELSE IF aKind = "Password"
         THEN /\ apc' = "soap"
              /\ aExchanges' = aExchanges + 1
              /\ UNCHANGED aResult
         ELSE /\ apc' = "done"
              /\ aResult' = ExchangeError(aKind, ans)
              /\ UNCHANGED aExchanges
  /\ UNCHANGED <<aKind, aOp, aCalls>>

\* PasswordAuthenticator.authenticateSOAP, the login answered.
authenticateSOAP(ans) ==
  /\ apc = "soap"
  /\ apc' = "done"
  /\ aResult' = IF ans = "ok" THEN AuthOk ELSE AuthOther
  /\ UNCHANGED <<aKind, aOp, aCalls, aExchanges, aRemote>>

\* ------------------------------------------- bulk jobs: WaitForCompletion

VARIABLES
  jImpl,       \* "Service" (package bulk) or "BulkServiceImpl" (package services)
  jInterval,   \* the pollInterval argument, in seconds
  jTicker,     \* the interval of the ticker created (0: none)
  jServer,     \* the job's state on the server
  wpc,         \* "start" | "select" | "polling" | "returned" | "panicked"
  jTick,       \* a tick is waiting in ticker.C
  jPolled,     \* the state the last successful poll returned ("": none yet)
  jRet,        \* what WaitForCompletion returned: [job, err]
  jCancelled,  \* ctx.Done() is closed
  jPollFailed, \* some poll has failed
  jUntilTick,  \* seconds until the ticker fires next
  jSincePoll,  \* seconds since the previous poll finished (since the call
               \* began, before the first poll), counted up to the interval
  jGap         \* jSincePoll when the latest poll started (-1: no poll yet)

bulkVars ==
  <<jImpl, jInterval, jTicker, jServer, wpc, jTick, jPolled, jRet, jCancelled,
    jPollFailed, jUntilTick, jSincePoll, jGap>>

\* pollInterval = 5 * time.Second, in seconds.
DefaultPollInterval == 5

\* The poll intervals passed: negative, zero, positive.
PollIntervals == {-1, 0, 3}

\* The job states of package bulk / package services.
JobStates == {"Open", "UploadComplete", "InProgress", "JobComplete", "Failed", "Aborted"}

\* A state-blind test; WaitReturnsTerminalOnly depends on the difference.
IsCompleteAnyState(st) == st \in JobStates

\* JobInfo.IsComplete.
IsComplete(st) == st \in {"JobComplete", "Failed", "Aborted"}

\* The states the server may move a closed job to.
ServerSuccessors(st) ==
  CASE st = "UploadComplete" -> {"InProgress", "Aborted", "Failed"}
    [] st = "InProgress" -> {"JobComplete", "Failed", "Aborted"}
    [] OTHER -> {}

NoReturn == [job |-> "none", err |-> "none"]

\* WaitForCompletion is called on a job that was created, uploaded to and closed.
InitBulk ==
  /\ jImpl \in {"Service", "BulkServiceImpl"}
  /\ jInterval \in PollIntervals
  /\ jTicker = 0
  /\ jServer = "UploadComplete"
  /\ wpc = "start"
  /\ jTick = FALSE
  /\ jPolled = ""
  /\ jRet = NoReturn
  /\ jCancelled = FALSE
  /\ jPollFailed = FALSE
  /\ jUntilTick = 0
  /\ jSincePoll = 0
  /\ jGap = -1

\* WaitForCompletion up to the loop: a zero interval becomes five seconds,
\* and time.NewTicker panics on a non-positive interval.
WaitForCompletion ==
  /\ wpc = "start"
  /\ LET d == IF jInterval = 0 THEN DefaultPollInterval ELSE jInterval
     IN IF d <= 0
          THEN wpc' = "panicked" /\ UNCHANGED <<jTicker, jUntilTick>>
          ELSE wpc' = "select" /\ jTicker' = d /\ jUntilTick' = d
  /\ UNCHANGED <<jImpl, jInterval, jServer, jTick, jPolled, jRet, jCancelled, jPollFailed,
                 jSincePoll, jGap>>

\* The ticker fires every interval, whatever the loop is doing; a tick that
\* finds one waiting in the channel is dropped.
TickerFires ==
  /\ wpc \in {"select", "polling"}
  /\ jUntilTick = 0
  /\ jTick' = TRUE
  /\ jUntilTick' = jTicker
  /\ UNCHANGED <<jImpl, jInterval, jTicker, jServer, wpc, jPolled, jRet, jCancelled,
                 jPollFailed, jSincePoll, jGap>>

\* One second passes while the loop waits in the select or for the poll.
TimePasses ==
  /\ wpc \in {"select", "polling"}
  /\ jUntilTick > 0
  /\ jUntilTick' = jUntilTick - 1
  /\ jSincePoll' = IF jSincePoll < jTicker THEN jSincePoll + 1 ELSE jSincePoll
  /\ UNCHANGED <<jImpl, jInterval, jTicker, jServer, wpc, jTick, jPolled, jRet,
                 jCancelled, jPollFailed, jGap>>

\* select takes <-ticker.C and GetJob / GetJobStatus sends the poll.
WaitSelectTick ==
  /\ wpc = "select"
  /\ jTick
  /\ jTick' = FALSE
  /\ wpc' = "polling"
  /\ jGap' = jSincePoll
  /\ UNCHANGED <<jImpl, jInterval, jTicker, jServer, jPolled, jRet, jCancelled,
                 jPollFailed, jUntilTick, jSincePoll>>

\* select takes <-ctx.Done(): return nil, ctx.Err().
WaitSelectCancelled ==
  /\ wpc = "select"
  /\ jCancelled
  /\ wpc' = "returned"
  /\ jRet' = [job |-> "nil", err |-> "ctx"]
  /\ UNCHANGED <<jImpl, jInterval, jTicker, jServer, jTick, jPolled, jCancelled,
                 jPollFailed, jUntilTick, jSincePoll, jGap>>

\* The poll is answered: an error is returned as it is, a job in a complete
\* state is returned, any other job goes back to the select.
WaitPollAnswered(ok) ==
  /\ wpc = "polling"
  /\ IF ok
       THEN /\ jPolled' = jServer
            /\ IF IsComplete(jServer)
                 THEN wpc' = "returned" /\ jRet' = [job |-> jServer, err |-> "nil"]
                 ELSE wpc' = "select" /\ UNCHANGED jRet
            /\ UNCHANGED jPollFailed
       ELSE /\ wpc' = "returned"
            /\ jRet' = [job |-> "nil", err |-> "poll"]
            /\ jPollFailed' = TRUE
            /\ UNCHANGED jPolled
  /\ jSincePoll' = 0
  /\ UNCHANGED <<jImpl, jInterval, jTicker, jServer, jTick, jCancelled, jUntilTick, jGap>>

\* The server processes the job.
ServerAdvances(st) ==
  /\ st \in ServerSuccessors(jServer)
  /\ jServer' = st
  /\ UNCHANGED <<jImpl, jInterval, jTicker, wpc, jTick, jPolled, jRet, jCancelled,
                 jPollFailed, jUntilTick, jSincePoll, jGap>>

\* The caller cancels the context of WaitForCompletion.
WaitCancel ==
  /\ ~jCancelled
  /\ wpc \in {"start", "select", "polling"}
  /\ jCancelled' = TRUE
  /\ UNCHANGED <<jImpl, jInterval, jTicker, jServer, wpc, jTick, jPolled, jRet,
                 jPollFailed, jUntilTick, jSincePoll, jGap>>

\* ------------------------------------- bulk jobs: the calls on one job

VARIABLES
  bImpl,          \* "Service" or "BulkServiceImpl"
  bExec,          \* the http.Client under it: "TokenProvider" or "Config"
  bServer,        \* the job's state on the platform ("none": not created)
  bPrev,          \* the job state returned before bLast ("": none)
  bLast,          \* the job state returned last ("": none yet)
  bOp,            \* the last call made
  bOut,           \* its outcome: "ok" | "err"
  bAfterTerminal, \* a terminal state had been returned when it was made
  bCalls          \* calls made

jobVars ==
  <<bImpl, bExec, bServer, bPrev, bLast, bOp, bOut, bAfterTerminal, bCalls>>

MaxJobCalls == 4

JobOps == {"CreateJob", "UploadData", "CloseJob", "AbortJob", "GetJob"}

\* What the platform answers to one request on a job in state st, and the
\* state it leaves the job in. The platform accepts a transition only
\* forward; lenient: it answers a repeated close or abort with the state the
\* job already has.
PlatformAnswer(op, st, lenient) ==
  CASE op = "CreateJob" -> [status |-> 200, state |-> "Open", next |-> "Open"]
    [] op = "UploadData" ->
         IF st = "Open" THEN [status |-> 201, state |-> "", next |-> st]
         ELSE [status |-> 400, state |-> "", next |-> st]
    [] op = "CloseJob" ->
         IF st = "Open"
           THEN [status |-> 200, state |-> "UploadComplete", next |-> "UploadComplete"]
         ELSE IF st = "UploadComplete" /\ lenient
           THEN [status |-> 200, state |-> st, next |-> st]
         ELSE [status |-> 400, state |-> "", next |-> st]
    [] op = "AbortJob" ->
         IF st \in {"Open", "UploadComplete", "InProgress"}
           THEN [status |-> 200, state |-> "Aborted", next |-> "Aborted"]
         ELSE IF st = "Aborted" /\ lenient
           THEN [status |-> 200, state |-> st, next |-> st]
         ELSE [status |-> 400, state |-> "", next |-> st]
    [] OTHER -> [status |-> 200, state |-> st, next |-> st]

\* A call that returns every answer as a success.
JobCallResultSwallowed(e, status, state) == [out |-> "ok", state |-> state]

\* What a call returns for the last answer: the executor's error when the
\* status is one it rejects, else the JobInfo parsed from the body.
JobCallResult(e, status, state) ==
  IF (e = "TokenProvider" /\ (status < 200 \/ status >= 300))
       \/ (e = "Config" /\ status >= 400)
    THEN [out |-> "err", state |-> ""]
    ELSE [out |-> "ok", state |-> state]

InitJob ==
  /\ bImpl \in {"Service", "BulkServiceImpl"}
  /\ bExec \in {"TokenProvider", "Config"}
  /\ bServer = "none"
  /\ bPrev = ""
  /\ bLast = ""
  /\ bOp = "none"
  /\ bOut = "none"
  /\ bAfterTerminal = FALSE
  /\ bCalls = 0

\* One call of CreateJob, UploadData, CloseJob, AbortJob or GetJob through
\* the executor. first: what became of a send the executor retried ("none":
\* no retry; "lost": the platform applied it and the answer was lost;
\* "unavailable": it was not applied). answered: the last send's answer
\* arrived (else the call returns the transport's error).
JobCall(op, first, answered, lenient) ==
  /\ bCalls < MaxJobCalls
  /\ (op = "CreateJob") = (bServer = "none")
  /\ op = "CreateJob" => first = "none"
  /\ LET st1 == IF first = "lost" THEN PlatformAnswer(op, bServer, lenient).next
                ELSE bServer
         ans == PlatformAnswer(op, st1, lenient)
         res == IF answered THEN JobCallResult(bExec, ans.status, ans.state)
                ELSE [out |-> "err", state |-> ""]
     IN /\ bServer' = IF op = "CreateJob" /\ ~answered THEN bServer ELSE ans.next
        /\ bOut' = res.out
        /\ IF res.out = "ok" /\ op # "UploadData"
             THEN bPrev' = bLast /\ bLast' = res.state
             ELSE UNCHANGED <<bPrev, bLast>>
  /\ bOp' = op
  /\ bAfterTerminal' = IsComplete(bLast)
  /\ bCalls' = bCalls + 1
  /\ UNCHANGED <<bImpl, bExec>>

\* The platform processes the closed job.
PlatformAdvances(st) ==
  /\ st \in ServerSuccessors(bServer)
  /\ bServer' = st
  /\ UNCHANGED <<bImpl, bExec, bPrev, bLast, bOp, bOut, bAfterTerminal, bCalls>>

\* ------------------------------------------ bulk results: parseCSV

VARIABLES
  vHeader,   \* the header row of the result
  vRow,      \* its data row
  vpc,       \* "input" | "parsed" | "failed"
  vParsed,   \* what parseCSV returned: [err, records]
  vFailed    \* what GetFailedRecords returned: [err, records]

csvVars == <<vHeader, vRow, vpc, vParsed, vFailed>>

MaxColumns == 3

ColumnNames == {"sf__Id", "sf__Error", "Name", "Phone"}
Cells == {"001xx", "REQUIRED_FIELD_MISSING: Name", ""}

\* Header rows: one to MaxColumns distinct column names.
HeaderRows ==
  {h \in UNION {[1..n -> ColumnNames] : n \in 1..MaxColumns} :
     \A i, j \in DOMAIN h : h[i] = h[j] => i = j}

\* Data rows: shorter than, as long as, or longer than the header.
DataRows == UNION {[1..n -> Cells] : n \in 1..(MaxColumns + 1)}

\* csv.Reader.Read with FieldsPerRecord = 0: the first record fixes the
\* number of fields and a later record of another length is ErrFieldCount.
CsvRead(fieldsPerRecord, rec) ==
  IF fieldsPerRecord > 0 /\ Len(rec) # fieldsPerRecord
    THEN [err |-> "ErrFieldCount", rec |-> rec]
    ELSE [err |-> "nil", rec |-> rec]

\* record[h] = row[i] for i, h := range headers, if i < len(row).
CsvRecord(header, row) ==
  [h \in {header[i] : i \in {k \in DOMAIN header : k <= Len(row)}} |->
     row[CHOOSE i \in DOMAIN header :
           /\ header[i] = h
           /\ \A j \in DOMAIN header : header[j] = h => j <= i]]

parseCSV(header, row) ==
  LET hd == CsvRead(0, header)
      rd == CsvRead(Len(header), row)
  IN IF rd.err # "nil"
       THEN [err |-> "failed to read row", records |-> <<>>]
       ELSE [err |-> "nil", records |-> <<CsvRecord(hd.rec, rd.rec)>>]

getString(m, key) == IF key \in DOMAIN m THEN m[key] ELSE ""

FailedRecord(r) ==
  [ID |-> getString(r, "sf__Id"), Error |-> getString(r, "sf__Error"), Data |-> r]

NoRecords == [err |-> "none", records |-> <<>>]

InitCsv ==
  /\ vHeader \in HeaderRows
  /\ vRow \in DataRows
  /\ vpc = "input"
  /\ vParsed = NoRecords
  /\ vFailed = NoRecords

\* GetSuccessfulRecords / GetUnprocessedRecords up to parseCSV.
ParseResult ==
  /\ vpc = "input"
  /\ vParsed' = parseCSV(vHeader, vRow)
  /\ vpc' = "parsed"
  /\ UNCHANGED <<vHeader, vRow, vFailed>>

\* GetFailedRecords: parseCSV, then one FailedRecord per record.
GetFailedRecords ==
  /\ vpc = "input"
  /\ LET p == parseCSV(vHeader, vRow)
     IN /\ vParsed' = p
        /\ vFailed' = IF p.err # "nil" THEN [err |-> p.err, records |-> <<>>]
                      ELSE [err |-> "nil",
                            records |-> [i \in DOMAIN p.records |-> FailedRecord(p.records[i])]]
  /\ vpc' = "failed"
  /\ UNCHANGED <<vHeader, vRow>>

\* ------------------------------------------- error bodies: ParseAPIError

VARIABLES
  ePkg,     \* the types package: "types" or "shared"
  eStatus,  \* the status of the response
  eBody,    \* its body
  epc,      \* "input" | "parsed"
  eOut      \* the error ParseAPIError returned

errVars == <<ePkg, eStatus, eBody, epc, eOut>>

MaxElems == 2

\* A body: its shape, the errorCode of its (first) element, the number of
\* elements of an array, and its text.
Body(shape, code, n) == [shape |-> shape, code |-> code, n |-> n, text |-> <<shape, code, n>>]

\* Arrays of error objects, an error object, and the bodies that are neither:
\* an empty array, an object without errorCode, an OAuth error object, text
\* that is not JSON, nothing.
ParseBodies ==
  {Body("array", c, n) : c \in Codes, n \in 1..MaxElems}
    \cup {Body("object", c, 0) : c \in Codes}
    \cup {Body(sh, "", 0) : sh \in {"emptyarray", "nocode", "autherr", "opaque", "empty"}}

NonSuccessStatuses == {301, 400, 401, 404, 500, 503}

\* The error value in full: the classification of ParseAPIError /
\* ParseAPIErrorShared, the StatusCode of each element of an APIErrors, and
\* the body text the value keeps (Message of the fallback in package types;
\* Raw, and Message of the fallback, in the shared package; <<>>: not kept).
ParsedError(p, status, b) ==
  LET e == ParseWith(p, status, b)
  IN [kind |-> e.kind, status |-> e.status, code |-> e.code,
      elems |-> IF e.kind = "APIErrors" THEN [i \in 1..b.n |-> status] ELSE <<>>,
      raw |-> IF p = "types"
                THEN (IF b.shape \in {"array", "object"} THEN <<>> ELSE b.text)
                ELSE (IF e.kind = "AuthError" THEN <<>> ELSE b.text)]

NoParsed == [kind |-> "nil", status |-> 0, code |-> "", elems |-> <<>>, raw |-> <<>>]

InitParse ==
  /\ ePkg \in TypesPkgs
  /\ eStatus \in NonSuccessStatuses
  /\ eBody \in ParseBodies
  /\ epc = "input"
  /\ eOut = NoParsed

ParseError ==
  /\ epc = "input"
  /\ eOut' = ParsedError(ePkg, eStatus, eBody)
  /\ epc' = "parsed"
  /\ UNCHANGED <<ePkg, eStatus, eBody>>

\* --------------------------------------- request bodies across the sends

VARIABLES
  dExec,    \* "TokenProvider" or "Config"
  dKind,    \* the body the caller passed: "reader" | "bytes" | "string" | "value"
  dLen,     \* its length in bytes
  dPos,     \* bytes already read from the caller's io.Reader
  dpc,      \* "ready" | "inflight" | "done"
  dWhy,     \* why the next send is made: "first" | "retry" | "replay"
  dSent     \* per send: <<why, first byte of the caller's body it carries,
            \*             number of bytes it carries>>

bodyVars == <<dExec, dKind, dLen, dPos, dpc, dWhy, dSent>>

MaxBodyLen == 2
MaxBodySends == 3

BodyKinds == {"reader", "bytes", "string", "value"}

\* The bodyReader of one send: the caller's io.Reader itself, from where it
\* stands; a new reader over all the bytes for a []byte, a string or a
\* marshalled value.
BodyReaderStart(kind, pos) == IF kind = "reader" THEN pos ELSE 0

InitBody ==
  /\ dExec \in {"TokenProvider", "Config"}
  /\ dKind \in BodyKinds
  /\ dLen \in 1..MaxBodyLen
  /\ dPos = 0
  /\ dpc = "ready"
  /\ dWhy = "first"
  /\ dSent = <<>>

\* doRequest / executeRequest up to c.Do(req): the transport reads read bytes
\* of the body reader and puts them on the wire.
SendBody(read) ==
  /\ dpc = "ready"
  /\ Len(dSent) < MaxBodySends
  /\ LET start == BodyReaderStart(dKind, dPos)
     IN /\ read \in 0..(dLen - start)
        /\ dSent' = Append(dSent, <<dWhy, start, dLen - start>>)
        /\ dPos' = IF dKind = "reader" THEN start + read ELSE dPos
  /\ dpc' = "inflight"
  /\ UNCHANGED <<dExec, dKind, dLen, dWhy>>

\* The outcome of the send: a success or an error that ends the call, a
\* retryable failure, or a 401 followed by a successful refresh (the
\* TokenProvider executor only).
BodySendAnswered(outcome) ==
  /\ dpc = "inflight"
  /\ outcome = "unauthorized" => dExec = "TokenProvider"
  /\ IF outcome = "final"
       THEN dpc' = "done" /\ UNCHANGED dWhy
       ELSE /\ dpc' = "ready"
            /\ dWhy' = IF outcome = "unauthorized" THEN "replay" ELSE "retry"
  /\ UNCHANGED <<dExec, dKind, dLen, dPos, dSent>>

\* ------------------------------------- the configured number of retries

VARIABLES
  mPath,        \* how the executor was built: "WithRetry" (http.NewClient with
                \* the option), "SalesforceClient" (salesforce.NewClient over
                \* it) or "Config" (http.NewClient(Config) of the Config executor)
  mConfigured,  \* the MaxRetries value the caller configured
  mCfg,         \* the executor's fields after construction
  mpc,          \* "loop" | "inflight" | "wait" | "done"
  mAttempt,     \* the loop variable
  mSends,       \* requests sent
  mCancelled    \* ctx.Done() is closed

retryVars == <<mPath, mConfigured, mCfg, mpc, mAttempt, mSends, mCancelled>>

\* maxRetries of http.NewClient before the options are applied.
ClientDefaultMaxRetries == 3

\* salesforce.NewClient: WithRetry is passed on only when MaxRetries > 0;
\* otherwise the http client keeps its defaults.
SalesforceNewClient(m, wmin, wmax) ==
  IF m > 0 THEN WithRetry(m, wmin, wmax)
  ELSE [maxRetries |-> ClientDefaultMaxRetries, waitMin |-> Second, waitMax |-> 30 * Second]

RetryPaths == {"WithRetry", "SalesforceClient", "Config"}

InitRetries ==
  /\ mPath \in RetryPaths
  /\ mConfigured \in -1..MaxRetriesBound
  /\ \E w \in WaitConfigs :
       mCfg = CASE mPath = "WithRetry" -> WithRetry(mConfigured, w[1], w[2])
                [] mPath = "SalesforceClient" -> SalesforceNewClient(mConfigured, w[1], w[2])
                [] OTHER -> NewClient(mConfigured, w[1])
  /\ mpc = "loop"
  /\ mAttempt = 0
  /\ mSends = 0
  /\ mCancelled = FALSE

\* The first test of the loop of Client.Request / doRequest, and the send of
\* the first iteration.
RetryLoopEnter ==
  /\ mpc = "loop"
  /\ IF (IF mPath = "Config" THEN CfgLoops(mAttempt, mCfg.maxRetries)
         ELSE RequestLoops(mAttempt, mCfg.maxRetries))
       THEN mpc' = "inflight" /\ mSends' = mSends + 1
       ELSE mpc' = "done" /\ UNCHANGED mSends
  /\ UNCHANGED <<mPath, mConfigured, mCfg, mAttempt, mCancelled>>

\* The send fails with an error the executor retries. Client.Request waits
\* when attempt < maxRetries and then continues; the Config executor's loop
\* continues and waits at the head of the next iteration.
RetrySendFails ==
  /\ mpc = "inflight"
  /\ IF mPath = "Config"
       THEN /\ mAttempt' = mAttempt + 1
            /\ mpc' = IF CfgLoops(mAttempt + 1, mCfg.maxRetries) THEN "wait" ELSE "done"
            /\ UNCHANGED mSends
       ELSE IF mAttempt < mCfg.maxRetries
         THEN mpc' = "wait" /\ UNCHANGED <<mAttempt, mSends>>
         ELSE /\ mAttempt' = mAttempt + 1
              /\ IF RequestLoops(mAttempt + 1, mCfg.maxRetries)
                   THEN mpc' = "inflight" /\ mSends' = mSends + 1
                   ELSE mpc' = "done" /\ UNCHANGED mSends
  /\ UNCHANGED <<mPath, mConfigured, mCfg, mCancelled>>

\* The wait ends by its timer and the next send is made.
RetryWaitOver ==
  /\ mpc = "wait"
  /\ LET att == IF mPath = "Config" THEN mAttempt ELSE mAttempt + 1
     IN /\ mAttempt' = att
        /\ IF mPath = "Config" \/ RequestLoops(att, mCfg.maxRetries)
             THEN mpc' = "inflight" /\ mSends' = mSends + 1
             ELSE mpc' = "done" /\ UNCHANGED mSends
  /\ UNCHANGED <<mPath, mConfigured, mCfg, mCancelled>>

\* The wait ends by ctx.Done(): return nil, ctx.Err().
RetryWaitCancelled ==
  /\ mpc = "wait"
  /\ mCancelled
  /\ mpc' = "done"
  /\ UNCHANGED <<mPath, mConfigured, mCfg, mAttempt, mSends, mCancelled>>

RetryCancel ==
  /\ mpc = "wait"
  /\ ~mCancelled
  /\ mCancelled' = TRUE
  /\ UNCHANGED <<mPath, mConfigured, mCfg, mpc, mAttempt, mSends>>

\* ------------------------- what a failed Connect / RefreshToken changes

VARIABLES
  fExec,      \* "TokenProvider" (SalesforceClient) or "Config" (Client of part_006)
  fKind,      \* its authenticator
  fAuthTok,   \* the token the authenticator holds
  fRefresh,   \* the refresh token the authenticator holds (rotations so far)
  fClientTok, \* SalesforceClient.token
  fHttpTok,   \* the http client's accessToken
  fHttpBase,  \* the http client's baseURL
  fpc,        \* "idle" | "oauth" | "soap" | "store" | "done"
  fOp,        \* the call: "Connect" | "RefreshToken"
  fGot,       \* the token the exchange returned
  fBefore,    \* the five fields above when the call began
  fOut,       \* how the call ended: "ok" | "err" | "none"
  fCalls      \* calls made

frameVars ==
  <<fExec, fKind, fAuthTok, fRefresh, fClientTok, fHttpTok, fHttpBase, fpc, fOp,
    fGot, fBefore, fOut, fCalls>>

MaxFrameCalls == 2

\* The authenticators each client can be built with.
FrameKinds(e) ==
  IF e = "TokenProvider" THEN {"OAuthRefresh", "Password", "Token"}
  ELSE {"RefreshTokenCfg", "PasswordCfg", "Token"}

Held == <<fAuthTok, fRefresh, fClientTok, fHttpTok, fHttpBase>>

\* An authenticator that stores whatever the exchange answered;
\* FailedAuthChangesNothing depends on the difference.
StoresTokenAnyAnswer(ans) == TRUE

\* The authenticator stores the token (and a rotated refresh token) only past
\* the status and parse checks of the exchange.
StoresToken(ans) == ans = "ok"

InitFrame ==
  /\ fExec \in {"TokenProvider", "Config"}
  /\ fKind \in FrameKinds(fExec)
  /\ \E connected \in BOOLEAN, u \in Urls :
       LET c == IF connected \/ fKind = "Token" THEN Cred(1, u) ELSE NoCred
       IN /\ fAuthTok = c
          /\ fClientTok = IF connected /\ fExec = "TokenProvider" THEN c ELSE NoCred
          /\ fHttpTok = IF connected THEN c ELSE NoCred
          /\ fHttpBase = IF connected THEN u ELSE 0
  /\ fRefresh = 0
  /\ fpc = "idle"
  /\ fOp = "none"
  /\ fGot = NoCred
  /\ fBefore = <<>>
  /\ fOut = "none"
  /\ fCalls = 0

\* Connect or RefreshToken is called: the token strategy answers at once
\* (Authenticate returns the held token, Refresh an error), the others send
\* their token exchange.
FrameCall(op) ==
  /\ fpc \in {"idle", "done"}
  /\ fCalls < MaxFrameCalls
  /\ fCalls' = fCalls + 1
  /\ fOp' = op
  /\ fBefore' = Held
  /\ IF fKind = "Token"
       THEN IF op = "Connect"
              THEN fpc' = "store" /\ fGot' = fAuthTok /\ fOut' = "none"
              ELSE fpc' = "done" /\ fGot' = NoCred /\ fOut' = "err"
       ELSE fpc' = "oauth" /\ fGot' = NoCred /\ fOut' = "none"
  /\ UNCHANGED <<fExec, fKind, fAuthTok, fRefresh, fClientTok, fHttpTok, fHttpBase>>

\* The token exchange is answered. On success the authenticator stores the
\* token; OAuthRefreshAuthenticator also keeps a refresh token the answer
\* carries. On failure PasswordAuthenticator of src/http/client.go goes on to
\* the SOAP login and the others return the error.
FrameExchange(ans, u, rotated) ==
  /\ fpc = "oauth"
  /\ LET tok == Cred(fCalls + 1, u)
     IN /\ IF StoresToken(ans)
             THEN /\ fAuthTok' = tok
                  /\ fRefresh' = IF fKind = "OAuthRefresh" /\ rotated
                                   THEN fRefresh + 1 ELSE fRefresh
             ELSE UNCHANGED <<fAuthTok, fRefresh>>
        /\ IF ans = "ok"
             THEN fpc' = "store" /\ fGot' = tok /\ UNCHANGED fOut
             ELSE IF fKind = "Password"
               THEN fpc' = "soap" /\ UNCHANGED <<fGot, fOut>>
               ELSE fpc' = "done" /\ fOut' = "err" /\ UNCHANGED fGot
  /\ UNCHANGED <<fExec, fKind, fClientTok, fHttpTok, fHttpBase, fOp, fBefore, fCalls>>

\* PasswordAuthenticator.authenticateSOAP, the login answered.
FrameSoap(ans, u) ==
  /\ fpc = "soap"
  /\ LET tok == Cred(fCalls + 1, u)
     IN IF ans = "ok"
          THEN /\ fAuthTok' = tok
               /\ fGot' = tok
               /\ fpc' = "store"
               /\ UNCHANGED fOut
          ELSE /\ fpc' = "done"
               /\ fOut' = "err"
               /\ UNCHANGED <<fAuthTok, fGot>>
  /\ UNCHANGED <<fExec, fKind, fRefresh, fClientTok, fHttpTok, fHttpBase, fOp, fBefore,
                 fCalls>>

\* Connect / RefreshToken past the error check: the client stores the token.
\* SalesforceClient.RefreshToken keeps the base URL when the token names
\* none; RefreshToken of the Config-based Client stores the access token only.
FrameStore ==
  /\ fpc = "store"
  /\ fClientTok' = IF fExec = "TokenProvider" THEN fGot ELSE fClientTok
  /\ fHttpTok' = fGot
  /\ fHttpBase' = IF fOp = "Connect" THEN fGot.url
                  ELSE IF fExec = "TokenProvider" /\ fGot.url # 0 THEN fGot.url
                  ELSE fHttpBase
  /\ fpc' = "done"
  /\ fOut' = "ok"
  /\ UNCHANGED <<fExec, fKind, fAuthTok, fRefresh, fOp, fGot, fBefore, fCalls>>

\* ------------------------------- the three locks of one SalesforceClient

VARIABLES
  lKind,      \* the client's authenticator: "OAuthRefresh" | "Password" | "Token"
  lgProg,     \* per goroutine: the lock operations its call has still to do
  lgOp,       \* per goroutine: the call it is in, or "none"
  lkWriter,   \* per lock: the goroutine holding it for writing, or 0
  lkReaders,  \* per lock: the goroutines holding it for reading
  lkPending,  \* per lock: the goroutines blocked in Lock()
  lOps        \* calls started so far

lockVars == <<lKind, lgProg, lgOp, lkWriter, lkReaders, lkPending, lOps>>

NumGoroutines == 2
MaxLockOps == 3

Goroutines == 1..NumGoroutines

\* SalesforceClient.mu, http Client.mu, the authenticator's mu.
LockNames == {"client", "http", "auth"}

LockOps == {"Connect", "RefreshToken", "SetAccessToken", "GetToken", "Request"}

\* http Client.SetBaseURL / SetAccessToken: Lock, store, Unlock.
HttpSet == <<(<<"Lock", "http">>), (<<"Unlock", "http">>)>>

\* The authenticator storing its token: Lock, store, Unlock.
AuthStore == <<(<<"Lock", "auth">>), (<<"Unlock", "auth">>)>>

\* authenticator.Authenticate: the token strategy reads its token under
\* RLock; the others store the answered token under Lock when the exchange
\* succeeded and take no lock when it failed.
AuthenticateLocks(kind, ok) ==
  IF kind = "Token" THEN <<(<<"RLock", "auth">>), (<<"RUnlock", "auth">>)>>
  ELSE IF ok THEN AuthStore ELSE <<>>

\* authenticator.Refresh: the token strategy returns its error at once.
RefreshLocks(kind, ok) ==
  IF kind # "Token" /\ ok THEN AuthStore ELSE <<>>

\* SalesforceClient.Connect.
ConnectLocks(kind, ok) ==
  AuthenticateLocks(kind, ok) \o
    (IF kind = "Token" \/ ok
       THEN <<(<<"Lock", "client">>)>> \o HttpSet \o HttpSet \o <<(<<"Unlock", "client">>)>>
       ELSE <<>>)

\* SalesforceClient.RefreshToken; url: the token names an instance URL.
RefreshTokenLocks(kind, ok, url) ==
  RefreshLocks(kind, ok) \o
    (IF kind # "Token" /\ ok
       THEN <<(<<"Lock", "client">>)>> \o HttpSet \o (IF url THEN HttpSet ELSE <<>>)
              \o <<(<<"Unlock", "client">>)>>
       ELSE <<>>)

\* SalesforceClient.SetAccessToken; the client lock is released on return.
SetAccessTokenLocks(kind) ==
  <<(<<"Lock", "client">>)>> \o HttpSet \o HttpSet
    \o (IF kind = "Token" THEN AuthStore ELSE <<>>)
    \o <<(<<"Unlock", "client">>)>>

\* SalesforceClient.GetToken.
GetTokenLocks == <<(<<"RLock", "client">>), (<<"RUnlock", "client">>)>>

\* A doRequest that keeps the http client's read lock until it returns;
\* NoDeadlock depends on the difference.
RECURSIVE doRequestLocksDeferred(_, _, _, _)
doRequestLocksDeferred(kind, got401, ok, url) ==
  <<(<<"RLock", "http">>)>> \o GetTokenLocks
    \o (IF got401
          THEN RefreshTokenLocks(kind, ok, url)
                 \o (IF kind # "Token" /\ ok
                       THEN doRequestLocksDeferred(kind, FALSE, ok, url) ELSE <<>>)
          ELSE <<>>)
    \o <<(<<"RUnlock", "http">>)>>

\* http Client.doRequest: reads baseURL and accessToken under RLock and
\* releases it, asks the provider's GetToken, sends; on a 401 it calls
\* RefreshToken and, when that succeeded, itself once more.
RECURSIVE doRequestLocks(_, _, _, _)
doRequestLocks(kind, got401, ok, url) ==
  <<(<<"RLock", "http">>), (<<"RUnlock", "http">>)>> \o GetTokenLocks
    \o (IF got401
          THEN RefreshTokenLocks(kind, ok, url)
                 \o (IF kind # "Token" /\ ok
                       THEN doRequestLocks(kind, FALSE, ok, url) ELSE <<>>)
          ELSE <<>>)

LockProgram(op, kind, got401, ok, url) ==
  CASE op = "Connect" -> ConnectLocks(kind, ok)
    [] op = "RefreshToken" -> RefreshTokenLocks(kind, ok, url)
    [] op = "SetAccessToken" -> SetAccessTokenLocks(kind)
    [] op = "GetToken" -> GetTokenLocks
    [] op = "Request" -> doRequestLocks(kind, got401, ok, url)

\* The lock sequences a call can run through, over the answers it can get.
LockPrograms(op, kind) ==
  {LockProgram(op, kind, got401, ok, url) : got401 \in BOOLEAN, ok \in BOOLEAN, url \in BOOLEAN}

InitLocks ==
  /\ lKind \in {"OAuthRefresh", "Password", "Token"}
  /\ lgProg = [g \in Goroutines |-> <<>>]
  /\ lgOp = [g \in Goroutines |-> "none"]
  /\ lkWriter = [l \in LockNames |-> 0]
  /\ lkReaders = [l \in LockNames |-> {}]
  /\ lkPending = [l \in LockNames |-> {}]
  /\ lOps = 0

\* A goroutine calls one of the client's operations.
StartOp(g, op) ==
  /\ lgProg[g] = <<>>
  /\ lOps < MaxLockOps
  /\ lOps' = lOps + 1
  /\ lgOp' = [lgOp EXCEPT ![g] = op]
  /\ \E prog \in LockPrograms(op, lKind) : lgProg' = [lgProg EXCEPT ![g] = prog]
  /\ UNCHANGED <<lKind, lkWriter, lkReaders, lkPending>>

\* sync.RWMutex.Lock, first half: the writer announces itself, which keeps
\* new readers out.
LockAnnounce(g) ==
  /\ lgProg[g] # <<>>
  /\ Head(lgProg[g])[1] = "Lock"
  /\ LET l == Head(lgProg[g])[2]
     IN /\ g \notin lkPending[l]
        /\ lkPending' = [lkPending EXCEPT ![l] = @ \cup {g}]
  /\ UNCHANGED <<lKind, lgProg, lgOp, lkWriter, lkReaders, lOps>>

\* sync.RWMutex.Lock, second half: no writer and no reader is left.
LockAcquire(g) ==
  /\ lgProg[g] # <<>>
  /\ Head(lgProg[g])[1] = "Lock"
  /\ LET l == Head(lgProg[g])[2]
     IN /\ g \in lkPending[l]
        /\ lkWriter[l] = 0
        /\ lkReaders[l] = {}
        /\ lkWriter' = [lkWriter EXCEPT ![l] = g]
        /\ lkPending' = [lkPending EXCEPT ![l] = @ \ {g}]
  /\ lgProg' = [lgProg EXCEPT ![g] = Tail(@)]
  /\ UNCHANGED <<lKind, lgOp, lkReaders, lOps>>

\* sync.RWMutex.RLock: blocks while a writer holds the lock or waits for it.
RLockAcquire(g) ==
  /\ lgProg[g] # <<>>
  /\ Head(lgProg[g])[1] = "RLock"
  /\ LET l == Head(lgProg[g])[2]
     IN /\ lkWriter[l] = 0
        /\ lkPending[l] = {}
        /\ lkReaders' = [lkReaders EXCEPT ![l] = @ \cup {g}]
  /\ lgProg' = [lgProg EXCEPT ![g] = Tail(@)]
  /\ UNCHANGED <<lKind, lgOp, lkWriter, lkPending, lOps>>

\* sync.RWMutex.Unlock / RUnlock.
LockRelease(g) ==
  /\ lgProg[g] # <<>>
  /\ Head(lgProg[g])[1] \in {"Unlock", "RUnlock"}
  /\ LET l == Head(lgProg[g])[2]
     IN IF Head(lgProg[g])[1] = "Unlock"
          THEN /\ lkWriter' = [lkWriter EXCEPT ![l] = 0]
               /\ UNCHANGED lkReaders
          ELSE /\ lkReaders' = [lkReaders EXCEPT ![l] = @ \ {g}]
               /\ UNCHANGED lkWriter
  /\ lgProg' = [lgProg EXCEPT ![g] = Tail(@)]
  /\ lgOp' = [lgOp EXCEPT ![g] = IF Len(lgProg[g]) = 1 THEN "none" ELSE @]
  /\ UNCHANGED <<lKind, lkPending, lOps>>

\* The locks a goroutine holds.
HeldLocks(g) == {l \in LockNames : lkWriter[l] = g \/ g \in lkReaders[l]}

\* A goroutine in a call has a step it can take: the guards of LockAnnounce,
\* LockAcquire, RLockAcquire and LockRelease.
CanStep(g) ==
  /\ lgProg[g] # <<>>
  /\ LET i == Head(lgProg[g])[1]
         l == Head(lgProg[g])[2]
     IN CASE i = "Lock" -> g \notin lkPending[l] \/ (lkWriter[l] = 0 /\ lkReaders[l] = {})
          [] i = "RLock" -> lkWriter[l] = 0 /\ lkPending[l] = {}
          [] OTHER -> TRUE

\* --------------------------------------------------------- specifications

vars == <<callVars, backoffVars, refreshVars, credVars, tokenVars, authVars, bulkVars, jobVars, csvVars, errVars, bodyVars, retryVars, frameVars, lockVars>>

IdleCall ==
  /\ exec = "none" /\ pkg = "none" /\ strategy = "none"
  /\ cfg = WithRetry(0, 0, 0)
  /\ pc = "done" /\ attempt = 0 /\ lastErr = NoErr /\ result = NoResult
  /\ cancelled = FALSE /\ token = 0 /\ accessToken = 0 /\ issued = 0
  /\ sends = 0 /\ refreshes = 0 /\ replays = 0 /\ exchanges = 0 /\ sentTok = 0
  /\ lastResp = NoResp /\ waitDelay = 0 /\ scen = "start"
  /\ cancelledInWait = FALSE /\ sendsAtCancel = 0
  /\ onlyRetryable = TRUE /\ only401 = TRUE /\ endedByCtx = FALSE

IdleBackoff == bIn = NoInput /\ bpc = "idle" /\ bDelay = 0

IdleRefresh ==
  /\ rpc = [p \in Callers |-> "done"]
  /\ rres = [p \in Callers |-> "none"]
  /\ rtok = [p \in Callers |-> 0]
  /\ cmu = 0 /\ ctoken = 0 /\ hAccess = 0 /\ authTok = 0
  /\ nIssued = 0 /\ nExchanges = 0 /\ lateStart = FALSE

IdleCred ==
  /\ kexec = "none" /\ kHttpBase = 0 /\ kHttpTok = NoCred /\ kProvTok = NoCred
  /\ kMu = FALSE
  /\ kW = [pc |-> "off", op |-> "none", cred |-> NoCred]
  /\ kR = [pc |-> "off", base |-> 0, tok |-> NoCred]
  /\ kIssued = 0
  /\ kSent = [tok |-> NoCred, base |-> 0]

IdleToken ==
  /\ tIn = [now |-> 0, issuedAt |-> 0, expiresAt |-> 0]
  /\ tpc = "idle"
  /\ tExpired = FALSE

IdleAuth ==
  /\ aKind = "none" /\ aOp = "none" /\ apc = "off" /\ aCalls = 0 /\ aExchanges = 0
  /\ aRemote = "" /\ aResult = AuthNone

IdleBulk ==
  /\ jImpl = "none" /\ jInterval = 0 /\ jTicker = 0 /\ jServer = "none"
  /\ wpc = "off" /\ jTick = FALSE /\ jPolled = "" /\ jRet = NoReturn
  /\ jCancelled = FALSE /\ jPollFailed = FALSE
  /\ jUntilTick = 0 /\ jSincePoll = 0 /\ jGap = -1

IdleJob ==
  /\ bImpl = "none" /\ bExec = "none" /\ bServer = "none" /\ bPrev = ""
  /\ bLast = "" /\ bOp = "none" /\ bOut = "none" /\ bAfterTerminal = FALSE
  /\ bCalls = 0

IdleCsv ==
  /\ vHeader = <<>> /\ vRow = <<>> /\ vpc = "off" /\ vParsed = NoRecords
  /\ vFailed = NoRecords

IdleParse ==
  /\ ePkg = "none" /\ eStatus = 0 /\ eBody = Body("none", "", 0) /\ epc = "off"
  /\ eOut = NoParsed

IdleBody ==
  /\ dExec = "none" /\ dKind = "none" /\ dLen = 0 /\ dPos = 0 /\ dpc = "off"
  /\ dWhy = "none" /\ dSent = <<>>

IdleRetries ==
  /\ mPath = "none" /\ mConfigured = 0 /\ mCfg = WithRetry(0, 0, 0) /\ mpc = "off"
  /\ mAttempt = 0 /\ mSends = 0 /\ mCancelled = FALSE

IdleFrame ==
  /\ fExec = "none" /\ fKind = "none" /\ fAuthTok = NoCred /\ fRefresh = 0
  /\ fClientTok = NoCred /\ fHttpTok = NoCred /\ fHttpBase = 0 /\ fpc = "off"
  /\ fOp = "none" /\ fGot = NoCred /\ fBefore = <<>> /\ fOut = "none" /\ fCalls = 0

IdleLocks ==
  /\ lKind = "none" /\ lgProg = <<>> /\ lgOp = <<>> /\ lkWriter = <<>>
  /\ lkReaders = <<>> /\ lkPending = <<>> /\ lOps = 0

\* One logical call through either executor.
Init ==
  /\ InitCall
  /\ IdleBackoff
  /\ IdleRefresh
  /\ IdleCred
  /\ IdleToken
  /\ IdleAuth
  /\ IdleBulk
  /\ IdleJob
  /\ IdleCsv
  /\ IdleParse
  /\ IdleBody
  /\ IdleRetries
  /\ IdleFrame
  /\ IdleLocks

Next ==
  \/ (doRequest /\ UNCHANGED <<backoffVars, refreshVars, credVars, tokenVars, authVars, bulkVars, jobVars, csvVars, errVars, bodyVars, retryVars, frameVars, lockVars>>)
  \/ (\E r \in Responses : doRequestRespond(r) /\ UNCHANGED <<backoffVars, refreshVars, credVars, tokenVars, authVars, bulkVars, jobVars, csvVars, errVars, bodyVars, retryVars, frameVars, lockVars>>)
  \/ (\E c \in BOOLEAN : doRequestTransportError(c) /\ UNCHANGED <<backoffVars, refreshVars, credVars, tokenVars, authVars, bulkVars, jobVars, csvVars, errVars, bodyVars, retryVars, frameVars, lockVars>>)
  \/ (\E o \in {"ok", "rejected", "transport", "ctx", "unsupported"} :
        RefreshTokenDone(o) /\ UNCHANGED <<backoffVars, refreshVars, credVars, tokenVars, authVars, bulkVars, jobVars, csvVars, errVars, bodyVars, retryVars, frameVars, lockVars>>)
  \/ (RequestWaitTimer /\ UNCHANGED <<backoffVars, refreshVars, credVars, tokenVars, authVars, bulkVars, jobVars, csvVars, errVars, bodyVars, retryVars, frameVars, lockVars>>)
  \/ (RequestWaitCancelled /\ UNCHANGED <<backoffVars, refreshVars, credVars, tokenVars, authVars, bulkVars, jobVars, csvVars, errVars, bodyVars, retryVars, frameVars, lockVars>>)
  \/ (executeRequest /\ UNCHANGED <<backoffVars, refreshVars, credVars, tokenVars, authVars, bulkVars, jobVars, csvVars, errVars, bodyVars, retryVars, frameVars, lockVars>>)
  \/ (\E r \in Responses : executeRequestRespond(r) /\ UNCHANGED <<backoffVars, refreshVars, credVars, tokenVars, authVars, bulkVars, jobVars, csvVars, errVars, bodyVars, retryVars, frameVars, lockVars>>)
  \/ (\E c \in BOOLEAN : executeRequestTransportError(c) /\ UNCHANGED <<backoffVars, refreshVars, credVars, tokenVars, authVars, bulkVars, jobVars, csvVars, errVars, bodyVars, retryVars, frameVars, lockVars>>)
  \/ (CfgWaitTimer /\ UNCHANGED <<backoffVars, refreshVars, credVars, tokenVars, authVars, bulkVars, jobVars, csvVars, errVars, bodyVars, retryVars, frameVars, lockVars>>)
  \/ (CfgWaitCancelled /\ UNCHANGED <<backoffVars, refreshVars, credVars, tokenVars, authVars, bulkVars, jobVars, csvVars, errVars, bodyVars, retryVars, frameVars, lockVars>>)
  \/ (Cancel /\ UNCHANGED <<backoffVars, refreshVars, credVars, tokenVars, authVars, bulkVars, jobVars, csvVars, errVars, bodyVars, retryVars, frameVars, lockVars>>)

Spec == Init /\ [][Next]_vars

\* The delay computations on drawn inputs.
NextBackoff ==
  \/ (ComputeBackoff /\ UNCHANGED <<callVars, refreshVars, credVars, tokenVars, authVars, bulkVars, jobVars, csvVars, errVars, bodyVars, retryVars, frameVars, lockVars>>)
  \/ (ComputeRetryDelay /\ UNCHANGED <<callVars, refreshVars, credVars, tokenVars, authVars, bulkVars, jobVars, csvVars, errVars, bodyVars, retryVars, frameVars, lockVars>>)

InitB ==
  /\ IdleCall
  /\ InitBackoff
  /\ IdleRefresh
  /\ IdleCred
  /\ IdleToken
  /\ IdleAuth
  /\ IdleBulk
  /\ IdleJob
  /\ IdleCsv
  /\ IdleParse
  /\ IdleBody
  /\ IdleRetries
  /\ IdleFrame
  /\ IdleLocks

SpecBackoff == InitB /\ [][NextBackoff]_vars

\* Goroutines calling RefreshToken on one SalesforceClient.
NextRefresh ==
  \/ (\E p \in Callers : RefreshTokenCall(p) /\ UNCHANGED <<callVars, backoffVars, credVars, tokenVars, authVars, bulkVars, jobVars, csvVars, errVars, bodyVars, retryVars, frameVars, lockVars>>)
  \/ (\E p \in Callers, ok \in BOOLEAN :
        RefreshExchangeDone(p, ok) /\ UNCHANGED <<callVars, backoffVars, credVars, tokenVars, authVars, bulkVars, jobVars, csvVars, errVars, bodyVars, retryVars, frameVars, lockVars>>)
  \/ (\E p \in Callers : RefreshAuthStore(p) /\ UNCHANGED <<callVars, backoffVars, credVars, tokenVars, authVars, bulkVars, jobVars, csvVars, errVars, bodyVars, retryVars, frameVars, lockVars>>)
  \/ (\E p \in Callers : RefreshLock(p) /\ UNCHANGED <<callVars, backoffVars, credVars, tokenVars, authVars, bulkVars, jobVars, csvVars, errVars, bodyVars, retryVars, frameVars, lockVars>>)
  \/ (\E p \in Callers : RefreshStore(p) /\ UNCHANGED <<callVars, backoffVars, credVars, tokenVars, authVars, bulkVars, jobVars, csvVars, errVars, bodyVars, retryVars, frameVars, lockVars>>)
  \/ (\E p \in Callers : RefreshAgain(p) /\ UNCHANGED <<callVars, backoffVars, credVars, tokenVars, authVars, bulkVars, jobVars, csvVars, errVars, bodyVars, retryVars, frameVars, lockVars>>)

InitR ==
  /\ IdleCall
  /\ IdleBackoff
  /\ InitRefresh
  /\ IdleCred
  /\ IdleToken
  /\ IdleAuth
  /\ IdleBulk
  /\ IdleJob
  /\ IdleCsv
  /\ IdleParse
  /\ IdleBody
  /\ IdleRetries
  /\ IdleFrame
  /\ IdleLocks

SpecRefresh == InitR /\ [][NextRefresh]_vars

\* A goroutine storing credentials while another sends requests.
NextCred ==
  \/ (\E op \in CredOps, u \in Urls :
        CredObtain(op, u) /\ UNCHANGED <<callVars, backoffVars, refreshVars, tokenVars, authVars, bulkVars, jobVars, csvVars, errVars, bodyVars, retryVars, frameVars, lockVars>>)
  \/ (CredLock /\ UNCHANGED <<callVars, backoffVars, refreshVars, tokenVars, authVars, bulkVars, jobVars, csvVars, errVars, bodyVars, retryVars, frameVars, lockVars>>)
  \/ (CredFirstWrite /\ UNCHANGED <<callVars, backoffVars, refreshVars, tokenVars, authVars, bulkVars, jobVars, csvVars, errVars, bodyVars, retryVars, frameVars, lockVars>>)
  \/ (CredSecondWrite /\ UNCHANGED <<callVars, backoffVars, refreshVars, tokenVars, authVars, bulkVars, jobVars, csvVars, errVars, bodyVars, retryVars, frameVars, lockVars>>)
  \/ (ReqReadClient /\ UNCHANGED <<callVars, backoffVars, refreshVars, tokenVars, authVars, bulkVars, jobVars, csvVars, errVars, bodyVars, retryVars, frameVars, lockVars>>)
  \/ (ReqSend /\ UNCHANGED <<callVars, backoffVars, refreshVars, tokenVars, authVars, bulkVars, jobVars, csvVars, errVars, bodyVars, retryVars, frameVars, lockVars>>)

InitK ==
  /\ IdleCall
  /\ IdleBackoff
  /\ IdleRefresh
  /\ InitCred
  /\ IdleToken
  /\ IdleAuth
  /\ IdleBulk
  /\ IdleJob
  /\ IdleCsv
  /\ IdleParse
  /\ IdleBody
  /\ IdleRetries
  /\ IdleFrame
  /\ IdleLocks

SpecCred == InitK /\ [][NextCred]_vars

\* Token.IsExpired on drawn tokens and clock readings.
NextToken ==
  \/ (TokenIsExpired /\ UNCHANGED <<callVars, backoffVars, refreshVars, credVars, authVars, bulkVars, jobVars, csvVars, errVars, bodyVars, retryVars, frameVars, lockVars>>)
  \/ (TokenIsExpiredShared /\ UNCHANGED <<callVars, backoffVars, refreshVars, credVars, authVars, bulkVars, jobVars, csvVars, errVars, bodyVars, retryVars, frameVars, lockVars>>)

InitT ==
  /\ IdleCall
  /\ IdleBackoff
  /\ IdleRefresh
  /\ IdleCred
  /\ InitToken
  /\ IdleAuth
  /\ IdleBulk
  /\ IdleJob
  /\ IdleCsv
  /\ IdleParse
  /\ IdleBody
  /\ IdleRetries
  /\ IdleFrame
  /\ IdleLocks

SpecToken == InitT /\ [][NextToken]_vars

\* Calls of Authenticate and Refresh on one authenticator.
NextAuth ==
  \/ (\E op \in {"Authenticate", "Refresh"} :
        Authenticate(op)
        /\ UNCHANGED <<callVars, backoffVars, refreshVars, credVars, tokenVars, bulkVars, jobVars, csvVars, errVars, bodyVars, retryVars, frameVars, lockVars>>)
  \/ (\E ans \in ExchangeAnswers :
        authenticateOAuth(ans)
        /\ UNCHANGED <<callVars, backoffVars, refreshVars, credVars, tokenVars, bulkVars, jobVars, csvVars, errVars, bodyVars, retryVars, frameVars, lockVars>>)
  \/ (\E ans \in SoapAnswers :
        authenticateSOAP(ans)
        /\ UNCHANGED <<callVars, backoffVars, refreshVars, credVars, tokenVars, bulkVars, jobVars, csvVars, errVars, bodyVars, retryVars, frameVars, lockVars>>)

InitA ==
  /\ IdleCall
  /\ IdleBackoff
  /\ IdleRefresh
  /\ IdleCred
  /\ IdleToken
  /\ InitAuth
  /\ IdleBulk
  /\ IdleJob
  /\ IdleCsv
  /\ IdleParse
  /\ IdleBody
  /\ IdleRetries
  /\ IdleFrame
  /\ IdleLocks

SpecAuth == InitA /\ [][NextAuth]_vars

\* WaitForCompletion on one closed job.
NextBulk ==
  \/ (WaitForCompletion /\ UNCHANGED <<callVars, backoffVars, refreshVars, credVars, tokenVars, authVars, jobVars, csvVars, errVars, bodyVars, retryVars, frameVars, lockVars>>)
  \/ (TickerFires /\ UNCHANGED <<callVars, backoffVars, refreshVars, credVars, tokenVars, authVars, jobVars, csvVars, errVars, bodyVars, retryVars, frameVars, lockVars>>)
  \/ (TimePasses /\ UNCHANGED <<callVars, backoffVars, refreshVars, credVars, tokenVars, authVars, jobVars, csvVars, errVars, bodyVars, retryVars, frameVars, lockVars>>)
  \/ (WaitSelectTick /\ UNCHANGED <<callVars, backoffVars, refreshVars, credVars, tokenVars, authVars, jobVars, csvVars, errVars, bodyVars, retryVars, frameVars, lockVars>>)
  \/ (WaitSelectCancelled /\ UNCHANGED <<callVars, backoffVars, refreshVars, credVars, tokenVars, authVars, jobVars, csvVars, errVars, bodyVars, retryVars, frameVars, lockVars>>)
  \/ (\E ok \in BOOLEAN : WaitPollAnswered(ok) /\ UNCHANGED <<callVars, backoffVars, refreshVars, credVars, tokenVars, authVars, jobVars, csvVars, errVars, bodyVars, retryVars, frameVars, lockVars>>)
  \/ (\E st \in JobStates : ServerAdvances(st) /\ UNCHANGED <<callVars, backoffVars, refreshVars, credVars, tokenVars, authVars, jobVars, csvVars, errVars, bodyVars, retryVars, frameVars, lockVars>>)
  \/ (WaitCancel /\ UNCHANGED <<callVars, backoffVars, refreshVars, credVars, tokenVars, authVars, jobVars, csvVars, errVars, bodyVars, retryVars, frameVars, lockVars>>)

InitJ ==
  /\ IdleCall
  /\ IdleBackoff
  /\ IdleRefresh
  /\ IdleCred
  /\ IdleToken
  /\ IdleAuth
  /\ InitBulk
  /\ IdleJob
  /\ IdleCsv
  /\ IdleParse
  /\ IdleBody
  /\ IdleRetries
  /\ IdleFrame
  /\ IdleLocks

SpecBulk == InitJ /\ [][NextBulk]_vars

\* The same, with a runtime that schedules the goroutine, time that passes,
\* a ticker that fires, and polls that are answered.
SpecBulkFair ==
  /\ SpecBulk
  /\ WF_vars(WaitForCompletion /\ UNCHANGED <<callVars, backoffVars, refreshVars, credVars, tokenVars, authVars, jobVars, csvVars, errVars, bodyVars, retryVars, frameVars, lockVars>>)
  /\ WF_vars(TickerFires /\ UNCHANGED <<callVars, backoffVars, refreshVars, credVars, tokenVars, authVars, jobVars, csvVars, errVars, bodyVars, retryVars, frameVars, lockVars>>)
  /\ WF_vars(TimePasses /\ UNCHANGED <<callVars, backoffVars, refreshVars, credVars, tokenVars, authVars, jobVars, csvVars, errVars, bodyVars, retryVars, frameVars, lockVars>>)
  /\ WF_vars(WaitSelectTick /\ UNCHANGED <<callVars, backoffVars, refreshVars, credVars, tokenVars, authVars, jobVars, csvVars, errVars, bodyVars, retryVars, frameVars, lockVars>>)
  /\ WF_vars(\E ok \in BOOLEAN : WaitPollAnswered(ok) /\ UNCHANGED <<callVars, backoffVars, refreshVars, credVars, tokenVars, authVars, jobVars, csvVars, errVars, bodyVars, retryVars, frameVars, lockVars>>)

\* The calls on one bulk job.
NextJob ==
  \/ (\E op \in JobOps, first \in {"none", "lost", "unavailable"}, answered, lenient \in BOOLEAN :
        JobCall(op, first, answered, lenient) /\ UNCHANGED <<callVars, backoffVars, refreshVars, credVars, tokenVars, authVars, bulkVars, csvVars, errVars, bodyVars, retryVars, frameVars, lockVars>>)
  \/ (\E st \in JobStates : PlatformAdvances(st) /\ UNCHANGED <<callVars, backoffVars, refreshVars, credVars, tokenVars, authVars, bulkVars, csvVars, errVars, bodyVars, retryVars, frameVars, lockVars>>)

InitO ==
  /\ IdleCall
  /\ IdleBackoff
  /\ IdleRefresh
  /\ IdleCred
  /\ IdleToken
  /\ IdleAuth
  /\ IdleBulk
  /\ InitJob
  /\ IdleCsv
  /\ IdleParse
  /\ IdleBody
  /\ IdleRetries
  /\ IdleFrame
  /\ IdleLocks

SpecJob == InitO /\ [][NextJob]_vars

\* Parsing one result of a bulk job.
NextCsv ==
  \/ (ParseResult /\ UNCHANGED <<callVars, backoffVars, refreshVars, credVars, tokenVars, authVars, bulkVars, jobVars, errVars, bodyVars, retryVars, frameVars, lockVars>>)
  \/ (GetFailedRecords /\ UNCHANGED <<callVars, backoffVars, refreshVars, credVars, tokenVars, authVars, bulkVars, jobVars, errVars, bodyVars, retryVars, frameVars, lockVars>>)

InitV ==
  /\ IdleCall
  /\ IdleBackoff
  /\ IdleRefresh
  /\ IdleCred
  /\ IdleToken
  /\ IdleAuth
  /\ IdleBulk
  /\ IdleJob
  /\ InitCsv
  /\ IdleParse
  /\ IdleBody
  /\ IdleRetries
  /\ IdleFrame
  /\ IdleLocks

SpecCsv == InitV /\ [][NextCsv]_vars

\* Parsing the body of one error response.
NextParse == ParseError /\ UNCHANGED <<callVars, backoffVars, refreshVars, credVars, tokenVars, authVars, bulkVars, jobVars, csvVars, bodyVars, retryVars, frameVars, lockVars>>

InitE ==
  /\ IdleCall
  /\ IdleBackoff
  /\ IdleRefresh
  /\ IdleCred
  /\ IdleToken
  /\ IdleAuth
  /\ IdleBulk
  /\ IdleJob
  /\ IdleCsv
  /\ InitParse
  /\ IdleBody
  /\ IdleRetries
  /\ IdleFrame
  /\ IdleLocks

SpecParse == InitE /\ [][NextParse]_vars

\* The sends of one call that has a body.
NextBody ==
  \/ (\E read \in 0..MaxBodyLen : SendBody(read) /\ UNCHANGED <<callVars, backoffVars, refreshVars, credVars, tokenVars, authVars, bulkVars, jobVars, csvVars, errVars, retryVars, frameVars, lockVars>>)
  \/ (\E o \in {"final", "retryable", "unauthorized"} :
        BodySendAnswered(o) /\ UNCHANGED <<callVars, backoffVars, refreshVars, credVars, tokenVars, authVars, bulkVars, jobVars, csvVars, errVars, retryVars, frameVars, lockVars>>)

InitD ==
  /\ IdleCall
  /\ IdleBackoff
  /\ IdleRefresh
  /\ IdleCred
  /\ IdleToken
  /\ IdleAuth
  /\ IdleBulk
  /\ IdleJob
  /\ IdleCsv
  /\ IdleParse
  /\ InitBody
  /\ IdleRetries
  /\ IdleFrame
  /\ IdleLocks

SpecBody == InitD /\ [][NextBody]_vars

\* One call whose every send fails retryably, for each way of configuring
\* the number of retries.
NextRetries ==
  \/ (RetryLoopEnter /\ UNCHANGED <<callVars, backoffVars, refreshVars, credVars, tokenVars, authVars, bulkVars, jobVars, csvVars, errVars, bodyVars, frameVars, lockVars>>)
  \/ (RetrySendFails /\ UNCHANGED <<callVars, backoffVars, refreshVars, credVars, tokenVars, authVars, bulkVars, jobVars, csvVars, errVars, bodyVars, frameVars, lockVars>>)
  \/ (RetryWaitOver /\ UNCHANGED <<callVars, backoffVars, refreshVars, credVars, tokenVars, authVars, bulkVars, jobVars, csvVars, errVars, bodyVars, frameVars, lockVars>>)
  \/ (RetryWaitCancelled /\ UNCHANGED <<callVars, backoffVars, refreshVars, credVars, tokenVars, authVars, bulkVars, jobVars, csvVars, errVars, bodyVars, frameVars, lockVars>>)
  \/ (RetryCancel /\ UNCHANGED <<callVars, backoffVars, refreshVars, credVars, tokenVars, authVars, bulkVars, jobVars, csvVars, errVars, bodyVars, frameVars, lockVars>>)

InitM ==
  /\ IdleCall
  /\ IdleBackoff
  /\ IdleRefresh
  /\ IdleCred
  /\ IdleToken
  /\ IdleAuth
  /\ IdleBulk
  /\ IdleJob
  /\ IdleCsv
  /\ IdleParse
  /\ IdleBody
  /\ InitRetries
  /\ IdleFrame
  /\ IdleLocks

SpecRetries == InitM /\ [][NextRetries]_vars

\* Connect and RefreshToken calls on one client, one after the other.
NextFrame ==
  \/ (\E op \in {"Connect", "RefreshToken"} : FrameCall(op) /\ UNCHANGED <<callVars, backoffVars, refreshVars, credVars, tokenVars, authVars, bulkVars, jobVars, csvVars, errVars, bodyVars, retryVars, lockVars>>)
  \/ (\E ans \in ExchangeAnswers, u \in Urls, rotated \in BOOLEAN :
        FrameExchange(ans, u, rotated) /\ UNCHANGED <<callVars, backoffVars, refreshVars, credVars, tokenVars, authVars, bulkVars, jobVars, csvVars, errVars, bodyVars, retryVars, lockVars>>)
  \/ (\E ans \in SoapAnswers, u \in Urls : FrameSoap(ans, u) /\ UNCHANGED <<callVars, backoffVars, refreshVars, credVars, tokenVars, authVars, bulkVars, jobVars, csvVars, errVars, bodyVars, retryVars, lockVars>>)
  \/ (FrameStore /\ UNCHANGED <<callVars, backoffVars, refreshVars, credVars, tokenVars, authVars, bulkVars, jobVars, csvVars, errVars, bodyVars, retryVars, lockVars>>)

InitF ==
  /\ IdleCall
  /\ IdleBackoff
  /\ IdleRefresh
  /\ IdleCred
  /\ IdleToken
  /\ IdleAuth
  /\ IdleBulk
  /\ IdleJob
  /\ IdleCsv
  /\ IdleParse
  /\ IdleBody
  /\ IdleRetries
  /\ InitFrame
  /\ IdleLocks

SpecFrame == InitF /\ [][NextFrame]_vars

\* Goroutines calling the operations of one SalesforceClient concurrently.
NextLocks ==
  \/ (\E g \in Goroutines, op \in LockOps : StartOp(g, op) /\ UNCHANGED <<callVars, backoffVars, refreshVars, credVars, tokenVars, authVars, bulkVars, jobVars, csvVars, errVars, bodyVars, retryVars, frameVars>>)
  \/ (\E g \in Goroutines : LockAnnounce(g) /\ UNCHANGED <<callVars, backoffVars, refreshVars, credVars, tokenVars, authVars, bulkVars, jobVars, csvVars, errVars, bodyVars, retryVars, frameVars>>)
  \/ (\E g \in Goroutines : LockAcquire(g) /\ UNCHANGED <<callVars, backoffVars, refreshVars, credVars, tokenVars, authVars, bulkVars, jobVars, csvVars, errVars, bodyVars, retryVars, frameVars>>)
  \/ (\E g \in Goroutines : RLockAcquire(g) /\ UNCHANGED <<callVars, backoffVars, refreshVars, credVars, tokenVars, authVars, bulkVars, jobVars, csvVars, errVars, bodyVars, retryVars, frameVars>>)
  \/ (\E g \in Goroutines : LockRelease(g) /\ UNCHANGED <<callVars, backoffVars, refreshVars, credVars, tokenVars, authVars, bulkVars, jobVars, csvVars, errVars, bodyVars, retryVars, frameVars>>)

InitL ==
  /\ IdleCall
  /\ IdleBackoff
  /\ IdleRefresh
  /\ IdleCred
  /\ IdleToken
  /\ IdleAuth
  /\ IdleBulk
  /\ IdleJob
  /\ IdleCsv
  /\ IdleParse
  /\ IdleBody
  /\ IdleRetries
  /\ IdleFrame
  /\ InitLocks

SpecLocks == InitL /\ [][NextLocks]_vars

\* ------------------------------------------------------------- properties

\* C1: when several goroutines call RefreshToken at once, exactly one exchange
\* is sent to the token endpoint, two exchanges are never in flight together,
\* and every caller gets the same result.
C1_SingleFlight ==
  /\ Cardinality({p \in Callers : rpc[p] = "exchange"}) <= 1
  /\ (~lateStart /\ \A p \in Callers : rpc[p] = "done" /\ rres[p] # "none")
       => /\ nExchanges = 1
          /\ \A p, q \in Callers : rres[p] = rres[q]

\* C2: within one call of Client.Request there is at most one RefreshToken and
\* at most one replay, counted over all the retry attempts of the call.
C2_AtMostOneRefresh == refreshes <= 1 /\ replays <= 1

\* C3: in the TokenProvider executor, when the first send is answered 401, the
\* refresh succeeds and the replay is answered 2xx, the call has made exactly
\* one refresh (one exchange) and one replay, the replay carried the token the
\* refresh obtained and not the one of the first send, and the call returns the
\* 2xx body with no error.
C3_RefreshAndReplay ==
  scen = "replayed2xx" =>
    /\ exec = "TokenProvider"
    /\ pc = "done"
    /\ result = Ok(lastResp)
    /\ lastResp.status = 200
    /\ refreshes = 1
    /\ exchanges = 1
    /\ replays = 1
    /\ sends = 2
    /\ sentTok = issued
    /\ token = issued
    /\ issued >= 1

\* The replay of C3 has been answered 2xx.
C3_Witness == scen = "replayed2xx" /\ sends = 2 /\ result.tag = "ok"

\* C4: when the server answers every send 401 and every refresh succeeds, the
\* call sends exactly twice, refreshes once, and then returns the
\* authentication error.
C4_TwoSendsThenAuthError ==
  (only401 /\ exec = "TokenProvider") =>
    /\ sends <= 2
    /\ refreshes <= 1
    /\ (sends = 2 /\ pc # "inflight") =>
         (pc = "done" /\ result.tag = "err" /\ result.err.status = 401)

WithinBackoffBounds(delay, base, cap, att) ==
  /\ 0 <= delay
  /\ 10 * delay <= 12 * base * (2 ^ att)
  /\ delay <= cap

\* C6: for every configured baseDelay and maxDelay, every attempt and every
\* jitter draw, the delay before retry k is in
\* [0, min(baseDelay * 2^(k-1) * 1.2, maxDelay)]. Stated here of
\* calculateBackoff for the configurations whose interval is not empty
\* (baseDelay >= 0 and maxDelay >= 0).
C6_DelayInBounds ==
  (bpc = "backoff" /\ bIn.waitMin >= 0 /\ bIn.waitMax >= 0) =>
    WithinBackoffBounds(bDelay, bIn.waitMin, bIn.waitMax, bIn.att)

\* C7: after a 429 that carries Retry-After, the wait before the next attempt
\* is the delay the server suggested; the computed backoff is used only when
\* the header is absent.
C7_HonorsRetryAfter ==
  (pc = "wait" /\ lastResp.status = 429 /\ lastResp.ra # -1) =>
    waitDelay = lastResp.ra * Second

\* C8: when the context is cancelled while the call waits between attempts,
\* the call returns the context's error without completing the wait and
\* without starting another attempt. Both executors.
C8_CancelDuringWait ==
  cancelledInWait =>
    /\ sends = sendsAtCancel
    /\ pc \in {"wait", "done"}
    /\ pc = "done" => (result = Failed(CtxErr) /\ endedByCtx)

\* A call cancelled in its wait has returned.
C8_Witness == cancelledInWait /\ pc = "done" /\ sends >= 1 /\ waitDelay > 0

\* C9: a call ended by the cancellation of its context (during a send, during
\* the refresh after a 401, or during a wait) returns a cancellation error,
\* never an API or authentication error.
C9_CancelIsCancellationError ==
  (pc = "done" /\ endedByCtx) => (result.tag # "ok" /\ result.err.ctx)

\* The responses C10 is about: a 5xx status, or an error response whose code
\* is UNABLE_TO_LOCK_ROW or REQUEST_LIMIT_EXCEEDED (401 aside, which is
\* answered by a refresh).
Transient(r) ==
  \/ r.status >= 500
  \/ r.status >= 400 /\ r.status # 401
       /\ r.code \in {"UNABLE_TO_LOCK_ROW", "REQUEST_LIMIT_EXCEEDED"}

\* C10: every 5xx response and every error response coded UNABLE_TO_LOCK_ROW
\* or REQUEST_LIMIT_EXCEEDED is retried while attempts remain, whether its body
\* is a JSON array, a single object or unparseable: the call does not return
\* the error of such a response while attempt < maxRetries.
C10_RetriesTransient ==
  ~(/\ pc = "done"
    /\ result.tag = "err"
    /\ result.err.kind \in {"APIError", "APIErrors", "AuthError"}
    /\ Transient(lastResp)
    /\ attempt < cfg.maxRetries)

\* A 4xx response other than 401 and 429 that carries no throttling or
\* row-lock error code.
PlainClientError(r) ==
  /\ r.status >= 400 /\ r.status < 500
  /\ r.status \notin {401, 429}
  /\ r.code \notin {"UNABLE_TO_LOCK_ROW", "REQUEST_LIMIT_EXCEEDED"}

\* C11: a 4xx response other than 401 and 429 with no throttling or row-lock
\* code ends the call at once with the typed error parsed from it: it is not
\* retried, no wait follows it, and when it answers the first send the call
\* has sent exactly once. Both executors.
C11_NoRetryOnClientError ==
  PlainClientError(lastResp) =>
    /\ pc = "done"
    /\ result.tag = "err"
    /\ result.err.kind \in {"APIError", "APIErrors", "AuthError"}
    /\ result.err.status = lastResp.status
    /\ result.err = ParseWith(IF exec = "Config" THEN "types" ELSE pkg,
                               lastResp.status, lastResp)
    /\ sends = attempt + replays + 1
    /\ (attempt = 0 /\ replays = 0) => sends = 1

\* A first send answered 400 INVALID_FIELD has ended the call.
C11_Witness ==
  /\ pc = "done"
  /\ lastResp.status = 400
  /\ lastResp.code = "INVALID_FIELD"
  /\ sends = 1
  /\ result.tag = "err"

\* C12: a call returns a body with no error only if the last response had a
\* status in 200..299, and after a 2xx response the call makes no further
\* send. Both executors.
C12_SuccessOnly2xx ==
  /\ result.tag = "ok" => (lastResp.status >= 200 /\ lastResp.status < 300)
  /\ (lastResp.status >= 200 /\ lastResp.status < 300) => pc = "done"

\* C13: every request sent carries an access token and a base address that
\* come from the same credential, while Connect, RefreshToken or
\* SetAccessToken runs concurrently with the request.
C13_TokenAndBaseFromOneCredential ==
  kSent.tok.id # 0 => kSent.base = kSent.tok.url

\* C14: a call made while no credential is held authenticates first: no
\* request is on the wire without a credential attached.
C14_NeverSendsWithoutCredential == pc = "inflight" => sentTok # 0

\* C15: Token.IsExpired is true exactly when the token has an expiry time and
\* the current time is later than that expiry time minus 5 minutes; a token
\* with no expiry time is never reported expired.
C15_IsExpired ==
  tpc \in {"types", "shared"} =>
    (tExpired <=> (tIn.expiresAt # 0 /\ tIn.now > tIn.expiresAt - 5))

C17_OneExchangeAndRemoteError ==
  /\ aExchanges <= 1
  /\ (apc = "done" /\ aRemote # "") => aResult = AuthError(aRemote)

\* C18: in the Config executor a 401 response leads to one credential refresh
\* and one replay of the request before any error is returned to the caller.
C18_ConfigRefreshesOn401 ==
  (exec = "Config" /\ pc = "done" /\ result.tag # "ok" /\ result.err.status = 401) =>
    (refreshes = 1 /\ replays = 1)

\* C19: WaitForCompletion returns a job with no error only when that job's
\* last polled state is JobComplete, Failed or Aborted; a Failed or Aborted
\* job is returned as the job with that state, not as an error; every other
\* return is the context's cancellation error or the error of a failed poll.
C19_WaitReturnsTerminalOnly ==
  /\ wpc = "returned" =>
       \/ /\ jRet.err = "nil"
          /\ jRet.job = jPolled
          /\ jPolled \in {"JobComplete", "Failed", "Aborted"}
       \/ jRet = [job |-> "nil", err |-> "ctx"] /\ jCancelled
       \/ jRet = [job |-> "nil", err |-> "poll"] /\ jPollFailed
  /\ jPolled \in {"JobComplete", "Failed", "Aborted"} =>
       (wpc = "returned" /\ jRet = [job |-> jPolled, err |-> "nil"])
  /\ (wpc # "returned") => jRet = NoReturn

\* WaitForCompletion has returned a Failed job with no error.
C19_Witness == wpc = "returned" /\ jRet = [job |-> "Failed", err |-> "nil"]

\* C20: if the closed job eventually reaches a terminal state on the server,
\* every poll succeeds and the context is never cancelled, WaitForCompletion
\* eventually returns that terminal job.
C20_WaitTerminates ==
  (/\ <>(jServer \in {"JobComplete", "Failed", "Aborted"})
   /\ [](~jPollFailed)
   /\ [](~jCancelled))
    => <>(wpc = "returned" /\ jRet = [job |-> jServer, err |-> "nil"])

\* With a ticker created (a pollInterval of zero or more) the wait ends.
WaitTerminatesWithTicker == (jInterval >= 0) => C20_WaitTerminates

\* C21: WaitForCompletion never starts a poll unless a full poll interval has
\* elapsed since the previous poll finished (since the call began, for the
\* first poll), even when a poll takes longer than the interval.
C21_FullIntervalBetweenPolls == (jGap >= 0) => (jGap >= jTicker)

\* C30: WaitForCompletion does not panic for any pollInterval: every
\* non-positive interval, zero or negative, falls back to the 5-second
\* default before the ticker is created.
C30_NoPanicOnAnyInterval ==
  /\ wpc # "panicked"
  /\ (jInterval <= 0 /\ wpc \in {"select", "polling", "returned"}) =>
       jTicker = DefaultPollInterval

\* The job states along Open -> UploadComplete -> InProgress -> terminal.
JobRank(st) ==
  CASE st = "Open" -> 1
    [] st = "UploadComplete" -> 2
    [] st = "InProgress" -> 3
    [] st \in {"JobComplete", "Failed", "Aborted"} -> 4
    [] OTHER -> 0

C23_ParseCSVDefensive ==
  vpc \in {"parsed", "failed"} =>
    /\ vParsed.err = "nil"
    /\ Len(vParsed.records) = 1
    /\ \A i \in DOMAIN vHeader :
         IF i <= Len(vRow)
           THEN /\ vHeader[i] \in DOMAIN vParsed.records[1]
                /\ vParsed.records[1][vHeader[i]] = vRow[i]
           ELSE vHeader[i] \notin DOMAIN vParsed.records[1]
    /\ vpc = "failed" =>
         /\ vFailed.err = "nil"
         /\ Len(vFailed.records) = 1
         /\ \A i \in DOMAIN vHeader :
              i <= Len(vRow) =>
                /\ vHeader[i] = "sf__Id" => vFailed.records[1].ID = vRow[i]
                /\ vHeader[i] = "sf__Error" => vFailed.records[1].Error = vRow[i]

\* C24: for every non-2xx status and every body, ParseAPIError returns a
\* non-nil typed error that records the status: a non-empty JSON array yields
\* one error per element, each carrying the status; a single JSON object with
\* an errorCode yields that error; any other body yields an error that
\* preserves the raw body text.
C24_ParseAPIErrorTotal ==
  epc = "parsed" =>
    /\ eOut.kind # "nil"
    /\ eOut.status = eStatus
    /\ eBody.shape = "array" =>
         /\ eOut.kind = "APIErrors"
         /\ Len(eOut.elems) = eBody.n
         /\ \A i \in DOMAIN eOut.elems : eOut.elems[i] = eStatus
    /\ eBody.shape = "object" => (eOut.kind = "APIError" /\ eOut.code = eBody.code)
    /\ eBody.shape \notin {"array", "object"} => eOut.raw = eBody.text

\* C25: every send of one logical call, the first attempt, each retry after a
\* retryable outcome and the replay after a 401, carries exactly the body
\* bytes the caller supplied, including when the body is an io.Reader as
\* used by bulk UploadData.
C25_EverySendCarriesBody ==
  \A i \in DOMAIN dSent : dSent[i][2] = 0 /\ dSent[i][3] = dLen

\* C26: when a request gets 401 and the refresh that follows fails, the call
\* ends after that single send and returns the refresh's authentication
\* error, not the API error parsed from the 401 response.
C26_RefreshFailureReturned ==
  (/\ exec = "TokenProvider"
   /\ sends = 1
   /\ lastResp.status = 401
   /\ refreshes = 1
   /\ replays = 0
   /\ pc \notin {"inflight", "refresh"}) =>
    /\ pc = "done"
    /\ result.tag = "err"
    /\ result.err # ParseWith(pkg, lastResp.status, lastResp)

\* C27: for every configured maxRetries value m, zero and negative included,
\* a call makes at least one send, and when every send fails retryably it
\* makes exactly max(1, m+1) sends; MaxRetries = 0 gives a single attempt.
C27_SendsForMaxRetries ==
  mpc = "done" =>
    /\ mSends >= 1
    /\ ~mCancelled =>
         mSends = (IF mConfigured + 1 > 1 THEN mConfigured + 1 ELSE 1)

\* C28: a failed Authenticate or Refresh leaves the held credential, and the
\* executor's access token and base address, exactly as they were before
\* the call.
C28_FailedAuthChangesNothing ==
  /\ (fpc = "done" /\ fOut = "err") => Held = fBefore
  /\ fpc \in {"oauth", "soap"} => Held = fBefore

\* A refresh failed on a connected client after an earlier call had stored a
\* token.
C28_Witness ==
  /\ fpc = "done" /\ fOut = "err" /\ fOp = "RefreshToken" /\ fCalls = 2
  /\ fHttpTok.id = 2 /\ fAuthTok.id = 2

\* C29: every interleaving of Connect, RefreshToken, SetAccessToken, GetToken
\* and in-flight requests on one SalesforceClient is deadlock-free: while a
\* call is under way some goroutine in a call can take its next step, and a
\* goroutine asks for a lock while holding another only in the order client
\* lock first, then the HTTP-client lock or the authenticator lock.
C29_NoDeadlock ==
  /\ (\E g \in Goroutines : lgProg[g] # <<>>) =>
       (\E g \in Goroutines : lgProg[g] # <<>> /\ CanStep(g))
  /\ \A g \in Goroutines :
       (lgProg[g] # <<>> /\ Head(lgProg[g])[1] \in {"Lock", "RLock"}) =>
         (HeldLocks(g) = {} \/
            (HeldLocks(g) = {"client"} /\ Head(lgProg[g])[2] # "client"))

\* A goroutine in Connect, RefreshToken or SetAccessToken holds the client
\* lock and waits for the HTTP-client lock, which a request of another
\* goroutine holds for reading.
C29_Witness ==
  \E g, h \in Goroutines :
    /\ g # h
    /\ lkWriter["client"] = g
    /\ g \in lkPending["http"]
    /\ h \in lkReaders["http"]
    /\ lgOp[h] = "Request"

====
